---- MODULE Spec2Model ----
(***************************************************************************)
(* A model of the geographic reference-data API (countries, states,        *)
(* cities): the data layer (data/countries.py, data/states.py,             *)
(* data/cities.py), its LRU cache (data/cache.py), its sanitizers          *)
(* (data/utils.py), the document-store wrapper (data/db_connect.py) and    *)
(* the HTTP handlers that call them (server/*_endpoints.py).               *)
(*                                                                         *)
(* Strings that the code normalises (codes, names) are sequences of        *)
(* one-character strings, so that strip / upper / whitespace collapsing    *)
(* are computed and not assumed.  Documents and payloads are functions     *)
(* from field names to values (Python dicts): a field may be absent.       *)
(***************************************************************************)
EXTENDS Integers, Sequences, FiniteSets, TLC

VARIABLES
    countries,                 \* collection 'countries': documents in natural order
    states,                    \* collection 'states'
    cities,                    \* collection 'cities'
    country_by_code_cache,     \* LRUCache._store of the countries singleton
    state_by_code_cache,       \* LRUCache._store of the states singleton
    city_by_name_state_cache,  \* LRUCache._store of the cities singleton
    now,                       \* the server clock read by datetime.utcnow()
    last,                      \* the last call made and what it returned
    lru_store,                 \* LRUCache._store of a stand-alone cache
    maxsize,                   \* LRUCache.maxsize of the stand-alone cache
    touched,                   \* history: keys of lru_store by last touch, oldest first
    lru_hist,                  \* history: the last two calls on the stand-alone cache
    unique_index,              \* whether the written collection carries a unique index
    pc,                        \* concurrent creates: where each request stands
    pending,                   \* concurrent creates: the document each request will insert
    outcome,                   \* concurrent creates: what each request ended with
    client,                    \* db_connect.client: 0 for None, else the n-th connection
    wrapped,                   \* the last call of a function wrapped by ensure_connection
    oids,                      \* how many ObjectIds the driver has generated
    text,                      \* a string handed to sanitize_string
    cleaned,                   \* what sanitize_string returned last
    passes                     \* how many times sanitize_string was applied to text

vars == <<countries, states, cities, country_by_code_cache, state_by_code_cache,
          city_by_name_state_cache, now, last, lru_store, maxsize, touched, lru_hist,
          unique_index, pc, pending, outcome, client, wrapped, oids, text, cleaned,
          passes>>

geoVars == <<countries, states, cities, country_by_code_cache, state_by_code_cache,
             city_by_name_state_cache, now, last>>

lruVars == <<lru_store, maxsize, touched, lru_hist>>

raceVars == <<unique_index, pc, pending, outcome>>

connVars == <<client, wrapped, oids>>

textVars == <<text, cleaned, passes>>

(***************************************************************************)
(* Bounds                                                                  *)
(***************************************************************************)
MaxKey == 3        \* keys 1..MaxKey of the stand-alone cache
MaxSize == 2       \* the stand-alone cache is built with maxsize in 1..MaxSize
MaxTime == 2       \* the server clock runs from 1 to MaxTime
NumProcs == 2      \* concurrent requests 1..NumProcs
MaxDocs == 3       \* concurrent creates stop when a collection holds MaxDocs documents
MaxConnects == 3   \* connect_db is called at most MaxConnects times
MaxLen == 4        \* strings handed to sanitize_string have at most MaxLen characters

(***************************************************************************)
(* Python values                                                           *)
(***************************************************************************)
None == [None |-> TRUE]

Has(d, f) == f \in DOMAIN d

Put(d, f, v) == [g \in (DOMAIN d) \cup {f} |-> IF g = f THEN v ELSE d[g]]

Del(d, f) == [g \in (DOMAIN d) \ {f} |-> d[g]]

\* dict.update / the store's $set: the fields of u overwrite those of d
Merge(d, u) == [g \in (DOMAIN d) \cup (DOMAIN u) |-> IF g \in DOMAIN u THEN u[g] ELSE d[g]]

(***************************************************************************)
(* data/utils.py and the str methods it uses                               *)
(***************************************************************************)
IsSpace(c) == c \in {" ", "\t", "\n"}

UpperChar(c) ==
    CASE c = "a" -> "A"
      [] c = "b" -> "B"
      [] c = "c" -> "C"
      [] c = "n" -> "N"
      [] c = "x" -> "X"
      [] c = "y" -> "Y"
      [] OTHER -> c

upper(s) == [i \in DOMAIN s |-> UpperChar(s[i])]

RECURSIVE lstrip(_)
lstrip(s) == IF s # <<>> /\ IsSpace(Head(s)) THEN lstrip(Tail(s)) ELSE s

RECURSIVE rstrip(_)
rstrip(s) ==
    IF s # <<>> /\ IsSpace(s[Len(s)]) THEN rstrip(SubSeq(s, 1, Len(s) - 1)) ELSE s

strip(s) == rstrip(lstrip(s))

\* re.sub(r'\s+', ' ', s): every maximal run of whitespace becomes one space
RECURSIVE collapse(_)
collapse(s) ==
    IF s = <<>> THEN <<>>
    ELSE IF IsSpace(Head(s))
         THEN <<" ">> \o collapse(lstrip(s))
         ELSE <<Head(s)>> \o collapse(Tail(s))

\* a sanitize_string that does not strip
sanitize_string_nostrip(value) == collapse(value)

sanitize_string(value) == collapse(strip(value))

sanitize_code(value) == upper(strip(value))

(***************************************************************************)
(* data/cache.py: LRUCache.  _store is an OrderedDict: a sequence of       *)
(* <<key, value>> entries, least recently used first.                      *)
(***************************************************************************)
Keys(store) == {store[i][1] : i \in DOMAIN store}

RECURSIVE Without(_, _)
Without(store, key) ==
    IF store = <<>> THEN <<>>
    ELSE IF Head(store)[1] = key THEN Without(Tail(store), key)
         ELSE <<Head(store)>> \o Without(Tail(store), key)

ValueOf(store, key) ==
    LET i == CHOOSE j \in DOMAIN store : store[j][1] = key IN store[i][2]

\* a get that forgets to mark the key as recently used
LRUCache_get_norefresh(store, key) ==
    IF key \notin Keys(store)
    THEN [store |-> store, value |-> None]
    ELSE [store |-> store, value |-> ValueOf(store, key)]

\* get returns the value (or None) and moves a found key to the end
LRUCache_get(store, key) ==
    IF key \notin Keys(store)
    THEN [store |-> store, value |-> None]
    ELSE LET value == ValueOf(store, key)
         IN  [store |-> Append(Without(store, key), <<key, value>>), value |-> value]

\* a set that keeps the value already stored under the key
LRUCache_set_keepold(store, size, key, value) ==
    IF key \in Keys(store)
    THEN Append(Without(store, key), <<key, ValueOf(store, key)>>)
    ELSE IF Len(store) >= size
         THEN Append(Tail(store), <<key, value>>)
         ELSE Append(store, <<key, value>>)

\* a set that evicts from a full cache even when the key is already held
LRUCache_set_evictfull(store, size, key, value) ==
    IF Len(store) >= size
    THEN Append(Without(Tail(store), key), <<key, value>>)
    ELSE Append(Without(store, key), <<key, value>>)

\* set raises KeyError (popitem on an empty dict) when maxsize <= 0 and the
\* cache is empty; the caches of this program are built with maxsize >= 1
LRUCache_set(store, size, key, value) ==
    IF key \in Keys(store)
    THEN Append(Without(store, key), <<key, value>>)
    ELSE IF Len(store) >= size
         THEN Append(Tail(store), <<key, value>>)
         ELSE Append(store, <<key, value>>)

LRUCache_invalidate(store, key) == Without(store, key)

LRUCache_clear(store) == <<>>

COUNTRY_CACHE_MAXSIZE == 256
STATE_CACHE_MAXSIZE == 512
CITY_CACHE_MAXSIZE == 1024

(***************************************************************************)
(* data/db_connect.py: a collection is the sequence of its documents in    *)
(* natural (insertion) order; the '_id' field is left out.                 *)
(***************************************************************************)
Matches(doc, filt) == \A f \in DOMAIN filt : Has(doc, f) /\ doc[f] = filt[f]

FirstMatch(coll, filt) ==
    IF \E i \in DOMAIN coll : Matches(coll[i], filt)
    THEN CHOOSE i \in DOMAIN coll :
            /\ Matches(coll[i], filt)
            /\ \A j \in 1..(i - 1) : ~Matches(coll[j], filt)
    ELSE 0

RemoveAt(coll, i) == SubSeq(coll, 1, i - 1) \o SubSeq(coll, i + 1, Len(coll))

RECURSIVE Select(_, _)
Select(coll, filt) ==
    IF coll = <<>> THEN <<>>
    ELSE IF Matches(Head(coll), filt) THEN <<Head(coll)>> \o Select(Tail(coll), filt)
         ELSE Select(Tail(coll), filt)

RECURSIVE Reject(_, _)
Reject(coll, filt) ==
    IF coll = <<>> THEN <<>>
    ELSE IF Matches(Head(coll), filt) THEN Reject(Tail(coll), filt)
         ELSE <<Head(coll)>> \o Reject(Tail(coll), filt)

create(collection, doc) == Append(collection, doc)

read_one(collection, filt) ==
    LET i == FirstMatch(collection, filt)
    IN  IF i = 0 THEN None ELSE collection[i]

read_filtered(collection, filt) == Select(collection, filt)

\* delete_one: returns the collection and deleted_count
delete(collection, filt) ==
    LET i == FirstMatch(collection, filt)
    IN  IF i = 0 THEN [coll |-> collection, count |-> 0]
        ELSE [coll |-> RemoveAt(collection, i), count |-> 1]

delete_many(collection, filt) ==
    [coll |-> Reject(collection, filt), count |-> Len(Select(collection, filt))]

\* update_one with $set: modified_count is 1 only when the document changed
update(collection, filters, update_dict) ==
    LET i == FirstMatch(collection, filters)
    IN  IF i = 0 THEN [coll |-> collection, modified_count |-> 0]
        ELSE LET doc == Merge(collection[i], update_dict)
             IN  [coll |-> [collection EXCEPT ![i] = doc],
                  modified_count |-> IF doc = collection[i] THEN 0 ELSE 1]

(***************************************************************************)
(* The data layer.  A function of the data layer is an operator on the     *)
(* world W (the three collections, the city cache, the number of store     *)
(* reads issued so far by the running call); it yields the world after     *)
(* the call and either the value returned (ret) or the exception raised.   *)
(***************************************************************************)
World ==
    [countries |-> countries, states |-> states, cities |-> cities,
     cache |-> city_by_name_state_cache, reads |-> 0]

Reads(W, n) == [W EXCEPT !.reads = @ + n]

Ret(W, value) == [w |-> W, exc |-> "none", msg |-> "", ret |-> value, data |-> None]

\* a create also leaves its (sanitized, stamped) argument with the caller
RetData(W, value, data) == [w |-> W, exc |-> "none", msg |-> "", ret |-> value, data |-> data]

Raise(W, exc, msg) == [w |-> W, exc |-> exc, msg |-> msg, ret |-> FALSE, data |-> None]

SanString(d, f) == IF Has(d, f) THEN Put(d, f, sanitize_string(d[f])) ELSE d

SanCode(d, f) == IF Has(d, f) THEN Put(d, f, sanitize_code(d[f])) ELSE d

\* a create that keeps the timestamps found in its input
Stamp_keepclient(d, t) ==
    Put(Put(d, "created_at", IF Has(d, "created_at") THEN d.created_at ELSE t),
        "updated_at", IF Has(d, "updated_at") THEN d.updated_at ELSE t)

Stamp(d, t) == Put(Put(d, "created_at", t), "updated_at", t)

Africa == <<"A", "f", "r", "i", "c", "a">>
Antarctica == <<"A", "n", "t", "a", "r", "c", "t", "i", "c", "a">>
Asia == <<"A", "s", "i", "a">>
Europe == <<"E", "u", "r", "o", "p", "e">>
NorthAmerica == <<"N", "o", "r", "t", "h", " ", "A", "m", "e", "r", "i", "c", "a">>
Oceania == <<"O", "c", "e", "a", "n", "i", "a">>
SouthAmerica == <<"S", "o", "u", "t", "h", " ", "A", "m", "e", "r", "i", "c", "a">>

VALID_CONTINENTS == {Africa, Antarctica, Asia, Europe, NorthAmerica, Oceania, SouthAmerica}

(************************* data/countries.py *******************************)
COUNTRY_REQUIRED_FIELDS == {"country_name", "country_code", "continent", "capital"}

get_country_by_code(W, code) ==
    Ret(Reads(W, 1), read_one(W.countries, [country_code |-> code]))

country_exists(W, code) == get_country_by_code(W, code).ret # None

add_country(W, country_data, t) ==
    IF \E f \in COUNTRY_REQUIRED_FIELDS : ~Has(country_data, f)
    THEN Raise(W, "ValueError", "Missing required field")
    ELSE
    LET d == SanString(SanString(SanCode(SanString(country_data, "country_name"),
                 "country_code"), "capital"), "continent")
    IN  IF d.continent \notin VALID_CONTINENTS
        THEN Raise(W, "ValueError", "Invalid continent")
        ELSE
        LET g == get_country_by_code(W, d.country_code)
        IN  IF g.ret # None
            THEN Raise(g.w, "ValueError", "already exists")
            ELSE LET doc == Stamp(d, t)
                 IN  RetData([g.w EXCEPT !.countries = create(@, doc)], TRUE, doc)

update_country(W, code, update_data, t) ==
    LET g == get_country_by_code(W, code)
    IN  IF g.ret = None
        THEN Ret(g.w, FALSE)
        ELSE
        LET u1 == SanString(SanString(SanString(update_data, "country_name"),
                      "capital"), "continent")
            u2 == IF Has(u1, "country_code") THEN Del(u1, "country_code") ELSE u1
            u3 == Put(u2, "updated_at", t)
            result == update(g.w.countries, [country_code |-> code], u3)
        IN  Ret([g.w EXCEPT !.countries = result.coll], result.modified_count > 0)

get_states_by_country(W, country_code) ==
    read_filtered(W.states, [country_code |-> country_code])

get_dependent_states_count(W, country_code) == Len(get_states_by_country(W, country_code))

can_delete_country(W, country_code) ==
    IF get_dependent_states_count(W, country_code) > 0
    THEN <<FALSE, "Cannot delete: state(s) depend on this country">>
    ELSE <<TRUE, "">>

\* delete_country without its dependency check
delete_country_unguarded(W, code) ==
    LET W1 == Reads(W, 1)
        result == delete(W1.countries, [country_code |-> code])
    IN  Ret([W1 EXCEPT !.countries = result.coll], result.count > 0)

delete_country(W, code) ==
    LET can == can_delete_country(W, code)
        W1 == Reads(W, 1)
    IN  IF ~can[1]
        THEN Raise(W1, "ValueError", can[2])
        ELSE LET result == delete(W1.countries, [country_code |-> code])
             IN  Ret([W1 EXCEPT !.countries = result.coll], result.count > 0)

(************************** data/cities.py *********************************)
CITY_REQUIRED_FIELDS == {"city_name", "country_code"}

get_cities_by_state(W, state_code) == read_filtered(W.cities, [state_code |-> state_code])

get_city_by_name_and_country(W, name, country_code) ==
    Ret(Reads(W, 1), read_one(W.cities, [city_name |-> name, country_code |-> country_code]))

CityKey(name, state_code) == <<name, upper(state_code)>>

\* a lookup that stores in the cache whatever the store returned
get_city_by_name_and_state_cachemiss(W, name, state_code) ==
    LET key == CityKey(name, state_code)
        cached == LRUCache_get(W.cache, key)
    IN  IF cached.value # None
        THEN Ret([W EXCEPT !.cache = cached.store], cached.value)
        ELSE
        LET city == read_one(W.cities, [city_name |-> name, state_code |-> upper(state_code)])
            W1 == Reads([W EXCEPT !.cache = cached.store], 1)
        IN  Ret([W1 EXCEPT !.cache = LRUCache_set(@, CITY_CACHE_MAXSIZE, key, city)], city)

get_city_by_name_and_state(W, name, state_code) ==
    LET key == CityKey(name, state_code)
        cached == LRUCache_get(W.cache, key)
    IN  IF cached.value # None
        THEN Ret([W EXCEPT !.cache = cached.store], cached.value)
        ELSE
        LET city == read_one(W.cities, [city_name |-> name, state_code |-> upper(state_code)])
            W1 == Reads([W EXCEPT !.cache = cached.store], 1)
        IN  IF city # None
            THEN Ret([W1 EXCEPT !.cache = LRUCache_set(@, CITY_CACHE_MAXSIZE, key, city)], city)
            ELSE Ret(W1, city)

delete_cities_by_state(W, state_code) ==
    LET result == delete_many(W.cities, [state_code |-> upper(state_code)])
    IN  Ret([W EXCEPT !.cities = result.coll], result.count)

delete_cities_by_country(W, country_code) ==
    LET result == delete_many(W.cities, [country_code |-> upper(country_code)])
    IN  Ret([W EXCEPT !.cities = result.coll], result.count)

(************************** data/states.py *********************************)
STATE_REQUIRED_FIELDS == {"state_name", "state_code", "country_code"}

get_state_by_code(W, code) ==
    Ret(Reads(W, 1), read_one(W.states, [state_code |-> code]))

state_exists(W, code) == get_state_by_code(W, code).ret # None

add_state(W, state_data, t) ==
    IF \E f \in STATE_REQUIRED_FIELDS : ~Has(state_data, f)
    THEN Raise(W, "ValueError", "Missing required field")
    ELSE
    LET d == SanString(SanCode(SanCode(SanString(state_data, "state_name"),
                 "state_code"), "country_code"), "capital")
        g == get_state_by_code(W, d.state_code)
    IN  IF g.ret # None
        THEN Raise(g.w, "ValueError", "already exists")
        ELSE LET doc == Stamp(d, t)
             IN  RetData([g.w EXCEPT !.states = create(@, doc)], TRUE, doc)

update_state(W, code, update_data, t) ==
    LET g == get_state_by_code(W, code)
    IN  IF g.ret = None
        THEN Ret(g.w, FALSE)
        ELSE
        LET u1 == SanString(SanCode(SanString(update_data, "state_name"),
                      "country_code"), "capital")
            u2 == IF Has(u1, "state_code") THEN Del(u1, "state_code") ELSE u1
            u3 == Put(u2, "updated_at", t)
            result == update(g.w.states, [state_code |-> code], u3)
        IN  Ret([g.w EXCEPT !.states = result.coll], result.modified_count > 0)

get_dependent_cities_count(W, state_code) == Len(get_cities_by_state(W, state_code))

can_delete_state(W, state_code) ==
    IF get_dependent_cities_count(W, state_code) > 0
    THEN <<FALSE, "Cannot delete: city/cities depend on this state">>
    ELSE <<TRUE, "">>

\* delete_state without its dependency check
delete_state_unguarded(W, code) ==
    LET c == delete_cities_by_state(Reads(W, 1), code)
        result == delete(c.w.states, [state_code |-> code])
    IN  Ret([c.w EXCEPT !.states = result.coll], result.count > 0)

\* can_delete_state is evaluated a second time to build the error message
delete_state(W, code) ==
    IF ~can_delete_state(W, code)[1]
    THEN Raise(Reads(W, 2), "ValueError", can_delete_state(W, code)[2])
    ELSE LET c == delete_cities_by_state(Reads(W, 1), code)
             result == delete(c.w.states, [state_code |-> code])
         IN  Ret([c.w EXCEPT !.states = result.coll], result.count > 0)

delete_states_by_country(W, country_code) ==
    LET c == delete_cities_by_country(W, country_code)
        result == delete_many(c.w.states, [country_code |-> upper(country_code)])
    IN  Ret([c.w EXCEPT !.states = result.coll], result.count)

(********************** data/cities.py, continued **************************)
add_city(W, city_data, t) ==
    IF \E f \in CITY_REQUIRED_FIELDS : ~Has(city_data, f)
    THEN Raise(W, "ValueError", "Missing required field")
    ELSE
    LET d == SanCode(SanCode(SanString(city_data, "city_name"), "state_code"), "country_code")
        checkState == Has(d, "state_code") /\ d.state_code # <<>>
        W1 == IF checkState THEN Reads(W, 1) ELSE W
        W2 == Reads(W1, 1)
    IN  IF checkState /\ ~state_exists(W, d.state_code)
        THEN Raise(W1, "ValueError", "State does not exist")
        ELSE IF ~country_exists(W1, d.country_code)
        THEN Raise(W2, "ValueError", "Country does not exist")
        ELSE
        LET existing == IF Has(d, "state_code")
                        THEN get_city_by_name_and_state(W2, d.city_name, d.state_code)
                        ELSE get_city_by_name_and_country(W2, d.city_name, d.country_code)
        IN  IF existing.ret # None
            THEN Raise(existing.w, "ValueError", "already exists")
            ELSE IF (IF Has(d, "population") THEN d.population ELSE 0) < 0
            THEN Raise(existing.w, "ValueError", "Population cannot be negative")
            ELSE IF (IF Has(d, "area_km2") THEN d.area_km2 ELSE 0) < 0
            THEN Raise(existing.w, "ValueError", "Area cannot be negative")
            ELSE
            LET doc == Stamp(d, t)
                key == CityKey(doc.city_name, IF Has(doc, "state_code") THEN doc.state_code ELSE <<>>)
            IN  RetData([existing.w EXCEPT
                            !.cities = create(@, doc),
                            !.cache = LRUCache_set(@, CITY_CACHE_MAXSIZE, key, doc)],
                        TRUE, doc)

\* update_city that leaves city_name in the update
update_city_keepname(W, name, state_code, update_data, t) ==
    LET g == get_city_by_name_and_state(W, name, state_code)
    IN  IF g.ret = None
        THEN Ret(g.w, FALSE)
        ELSE
        LET u1 == SanCode(update_data, "country_code")
            u3 == IF Has(u1, "state_code") THEN Del(u1, "state_code") ELSE u1
            u4 == Put(Del(u3, "created_at"), "updated_at", t)
            result == update(g.w.cities, [city_name |-> name, state_code |-> state_code], u4)
        IN  IF result.modified_count > 0
            THEN Ret([g.w EXCEPT !.cities = result.coll,
                                 !.cache = LRUCache_invalidate(@, CityKey(name, state_code))], TRUE)
            ELSE Ret(g.w, FALSE)

update_city(W, name, state_code, update_data, t) ==
    LET g == get_city_by_name_and_state(W, name, state_code)
    IN  IF g.ret = None
        THEN Ret(g.w, FALSE)
        ELSE
        LET u1 == SanCode(update_data, "country_code")
            u2 == IF Has(u1, "city_name") THEN Del(u1, "city_name") ELSE u1
            u3 == IF Has(u2, "state_code") THEN Del(u2, "state_code") ELSE u2
            u4 == Put(Del(u3, "created_at"), "updated_at", t)
            result == update(g.w.cities, [city_name |-> name, state_code |-> state_code], u4)
        IN  IF result.modified_count > 0
            THEN Ret([g.w EXCEPT !.cities = result.coll,
                                 !.cache = LRUCache_invalidate(@, CityKey(name, state_code))], TRUE)
            ELSE Ret(g.w, FALSE)

update_city_by_name_and_country(W, name, country_code, update_data) ==
    LET g == get_city_by_name_and_country(W, name, country_code)
    IN  IF g.ret = None
        THEN Ret(g.w, FALSE)
        ELSE
        LET u1 == SanCode(update_data, "state_code")
            u2 == IF Has(u1, "city_name") THEN Del(u1, "city_name") ELSE u1
            u3 == IF Has(u2, "country_code") THEN Del(u2, "country_code") ELSE u2
            result == update(g.w.cities, [city_name |-> name, country_code |-> country_code], u3)
        IN  Ret([g.w EXCEPT !.cities = result.coll], result.modified_count > 0)

delete_city(W, name, state_code) ==
    LET result == delete(W.cities, [city_name |-> name, state_code |-> state_code])
    IN  IF result.count > 0
        THEN Ret([W EXCEPT !.cities = result.coll,
                           !.cache = LRUCache_invalidate(@, CityKey(name, state_code))], TRUE)
        ELSE Ret(W, FALSE)

delete_city_by_name_and_country(W, name, country_code) ==
    LET result == delete(W.cities, [city_name |-> name, country_code |-> country_code])
    IN  Ret([W EXCEPT !.cities = result.coll], result.count > 0)

(***************************************************************************)
(* The HTTP handlers.  A handler yields the world after the request, the   *)
(* status of the response and the message of an error response.  abort()   *)
(* raises an HTTPException, which is an Exception: an abort made inside a   *)
(* 'try' whose handler is 'except Exception' is caught and turned into 500. *)
(***************************************************************************)
Http(W, status, msg) == [w |-> W, status |-> status, msg |-> msg]

Truthy(d, f) == Has(d, f) /\ d[f] # <<>>

(******************** server/countries_endpoints.py ************************)
CountriesList_post(W, country_data, t) ==
    IF ~Has(country_data, "continent") \/ country_data.continent \notin VALID_CONTINENTS
    THEN Http(W, "400", "Invalid continent")
    ELSE LET r == add_country(W, country_data, t)
         IN  IF r.exc = "ValueError" THEN Http(r.w, "400", r.msg)
             ELSE IF r.ret THEN Http(r.w, "201", "")
             ELSE Http(r.w, "500", "Failed to create country")

Country_get(W, country_code) ==
    LET g == get_country_by_code(W, upper(country_code))
    IN  IF g.ret # None THEN Http(g.w, "200", "") ELSE Http(g.w, "404", "not found")

Country_put(W, country_code, update_data, t) ==
    IF Has(update_data, "continent") /\ update_data.continent \notin VALID_CONTINENTS
    THEN Http(W, "400", "Invalid continent")
    ELSE LET r == update_country(W, upper(country_code), update_data, t)
         IN  IF r.ret
             THEN Http(get_country_by_code(r.w, upper(country_code)).w, "200", "")
             ELSE Http(r.w, "404", "not found")

Country_delete(W, country_code) ==
    LET r == delete_country(W, upper(country_code))
    IN  IF r.exc = "ValueError" THEN Http(r.w, "409", r.msg)
        ELSE IF r.ret THEN Http(r.w, "204", "")
        ELSE Http(r.w, "404", "not found")

(********************** server/states_endpoints.py *************************)
\* a handler that creates the state without looking for its country
StatesList_post_nocheck(W, state_data, t) ==
    IF ~Truthy(state_data, "country_code")
    THEN Http(W, "400", "country_code is required")
    ELSE LET r == add_state(W, state_data, t)
         IN  IF r.exc = "ValueError" THEN Http(r.w, "400", r.msg)
             ELSE IF r.ret THEN Http(r.w, "201", "")
             ELSE Http(r.w, "500", "Failed to create state")

StatesList_post(W, state_data, t) ==
    IF ~Truthy(state_data, "country_code")
    THEN Http(W, "400", "country_code is required")
    ELSE
    LET g == get_country_by_code(W, upper(state_data.country_code))
    IN  IF g.ret = None
        THEN \* abort(400) is raised inside the try and caught by 'except Exception'
             Http(g.w, "500", "Error validating country")
        ELSE LET r == add_state(g.w, state_data, t)
             IN  IF r.exc = "ValueError" THEN Http(r.w, "400", r.msg)
                 ELSE IF r.ret THEN Http(r.w, "201", "")
                 ELSE Http(r.w, "500", "Failed to create state")

State_get(W, state_code) ==
    LET g == get_state_by_code(W, upper(state_code))
    IN  IF g.ret # None THEN Http(g.w, "200", "") ELSE Http(g.w, "404", "not found")

State_put(W, state_code, update_data, t) ==
    LET g == IF Has(update_data, "country_code")
             THEN get_country_by_code(W, upper(update_data.country_code))
             ELSE Ret(W, TRUE)
    IN  IF Has(update_data, "country_code") /\ g.ret = None
        THEN \* abort(400) is raised inside the try and caught by 'except Exception'
             Http(g.w, "500", "Error validating country")
        ELSE LET r == update_state(g.w, upper(state_code), update_data, t)
             IN  IF r.ret
                 THEN Http(get_state_by_code(r.w, upper(state_code)).w, "200", "")
                 ELSE Http(r.w, "404", "not found")

State_delete(W, state_code) ==
    LET r == delete_state(W, upper(state_code))
    IN  IF r.exc = "ValueError" THEN Http(r.w, "409", r.msg)
        ELSE IF r.ret THEN Http(r.w, "204", "")
        ELSE Http(r.w, "404", "not found")

(********************** server/cities_endpoints.py *************************)
CitiesList_post(W, city_data, t) ==
    IF ~Truthy(city_data, "state_code") \/ ~Truthy(city_data, "country_code")
    THEN Http(W, "400", "state_code and country_code are required")
    ELSE
    LET parent_state == get_state_by_code(W, upper(city_data.state_code))
    IN  IF parent_state.ret = None
        THEN Http(parent_state.w, "400", "Parent state does not exist")
        ELSE IF ~Has(parent_state.ret, "country_code")
                \/ parent_state.ret.country_code # upper(city_data.country_code)
        THEN Http(parent_state.w, "400", "State does not belong to country")
        ELSE LET r == add_city(parent_state.w, city_data, t)
             IN  IF r.exc = "ValueError" THEN Http(r.w, "400", r.msg)
                 ELSE IF r.ret THEN Http(r.w, "201", "")
                 ELSE Http(r.w, "500", "Failed to create city")

City_get(W, state_code, city_name) ==
    LET g == get_city_by_name_and_state(W, city_name, upper(state_code))
    IN  IF g.ret # None THEN Http(g.w, "200", "") ELSE Http(g.w, "404", "not found")

City_put(W, state_code, city_name, update_data, t) ==
    LET r == update_city(W, city_name, upper(state_code), update_data, t)
    IN  IF r.ret
        THEN Http(get_city_by_name_and_state(r.w, city_name, upper(state_code)).w, "200", "")
        ELSE Http(r.w, "404", "not found")

\* a handler that hands the path's state code on as it came
City_delete_rawcode(W, state_code, city_name) ==
    LET r == delete_city(W, city_name, state_code)
    IN  IF r.ret THEN Http(r.w, "204", "") ELSE Http(r.w, "404", "not found")

City_delete(W, state_code, city_name) ==
    LET r == delete_city(W, city_name, upper(state_code))
    IN  IF r.ret THEN Http(r.w, "204", "") ELSE Http(r.w, "404", "not found")

(***************************************************************************)
(* The calls made on the program: their arguments                          *)
(***************************************************************************)
AA == <<"A", "A">>
aa == <<"a", "a">>
BB == <<"B", "B">>
NY == <<"N", "Y">>
ny == <<"n", "y">>
CA == <<"C", "A">>
CityX == <<"X">>
CityXRaw == <<" ", "X">>
SomeName == <<"N", "a", "m", "e">>
Atlantis == <<"A", "t", "l", "a", "n", "t", "i", "s">>

RawCountryCodes == {AA, aa, BB}
RawStateCodes == {NY, ny, CA}
RawCityNames == {CityX, CityXRaw}

CountryDoc(code) ==
    [country_name |-> SomeName, country_code |-> code, continent |-> Europe,
     capital |-> SomeName, population |-> 5]

StateDoc(code, country_code) ==
    [state_name |-> SomeName, state_code |-> code, country_code |-> country_code,
     population |-> 5]

CityDoc(name, state_code, country_code) ==
    [city_name |-> name, state_code |-> state_code, country_code |-> country_code,
     population |-> 5]

\* create payloads: well-formed ones, one without a required field, one invalid
CountryPayloads ==
    {CountryDoc(c) : c \in RawCountryCodes}
    \cup {[country_name |-> SomeName, country_code |-> AA, continent |-> Europe],
          [CountryDoc(BB) EXCEPT !.continent = Atlantis]}

StatePayloads ==
    {StateDoc(NY, AA), StateDoc(NY, BB), StateDoc(ny, aa), StateDoc(CA, BB),
     [state_name |-> SomeName, state_code |-> NY]}

CityPayloads ==
    {CityDoc(CityX, NY, AA), CityDoc(CityX, NY, BB), CityDoc(CityX, CA, BB),
     CityDoc(CityXRaw, ny, aa),
     [CityDoc(CityX, NY, AA) EXCEPT !.population = -1],
     [city_name |-> CityX, state_code |-> NY]}

\* update payloads
CountryUpdates == {[population |-> 7, country_code |-> BB]}
StateUpdates == {[population |-> 7], [country_code |-> BB]}
CityUpdates == {[population |-> 7], [population |-> 7, city_name |-> SomeName, state_code |-> CA]}
CityByCountryUpdates == {[population |-> 7]}

\* update payloads a client may send, with the fields the server owns; the
\* client's timestamp 0 is older than any time of the server clock
ClientCountryUpdates ==
    CountryUpdates \cup {[population |-> 7, created_at |-> 0],
                         [created_at |-> 0, updated_at |-> 0]}
ClientStateUpdates ==
    StateUpdates \cup {[population |-> 7, created_at |-> 0],
                       [created_at |-> 0, updated_at |-> 0]}
ClientCityUpdates ==
    CityUpdates \cup {[population |-> 7, created_at |-> 0],
                      [created_at |-> 0, updated_at |-> 0]}

(***************************************************************************)
(* The actions: one call of a data-layer function or one HTTP request      *)
(***************************************************************************)
Commit(W) ==
    /\ countries' = W.countries
    /\ states' = W.states
    /\ cities' = W.cities
    /\ city_by_name_state_cache' = W.cache
    /\ UNCHANGED <<country_by_code_cache, state_by_code_cache, now, lruVars,
                   raceVars, connVars, textVars>>

BoolStatus(r) == IF r.exc # "none" THEN r.exc ELSE IF r.ret THEN "True" ELSE "False"

FoundStatus(r) == IF r.ret # None THEN "found" ELSE "None"

Called(op, W, status, msg) ==
    /\ Commit(W)
    /\ last' = [op |-> op, status |-> status, msg |-> msg]

GetCountryByCode(code) ==
    LET r == get_country_by_code(World, code)
    IN  Called("get_country_by_code", r.w, FoundStatus(r), "")

AddCountry(country_data) ==
    LET r == add_country(World, country_data, now)
    IN  Called("add_country", r.w, BoolStatus(r), r.msg)

UpdateCountry(code, update_data) ==
    LET r == update_country(World, code, update_data, now)
    IN  Called("update_country", r.w, BoolStatus(r), r.msg)

DeleteCountry(code) ==
    LET r == delete_country(World, code)
    IN  Called("delete_country", r.w, BoolStatus(r), r.msg)

GetStateByCode(code) ==
    LET r == get_state_by_code(World, code)
    IN  Called("get_state_by_code", r.w, FoundStatus(r), "")

AddState(state_data) ==
    LET r == add_state(World, state_data, now)
    IN  Called("add_state", r.w, BoolStatus(r), r.msg)

UpdateState(code, update_data) ==
    LET r == update_state(World, code, update_data, now)
    IN  Called("update_state", r.w, BoolStatus(r), r.msg)

DeleteState(code) ==
    LET r == delete_state(World, code)
    IN  Called("delete_state", r.w, BoolStatus(r), r.msg)

DeleteStatesByCountry(country_code) ==
    LET r == delete_states_by_country(World, country_code)
    IN  Called("delete_states_by_country", r.w, IF r.ret > 0 THEN "deleted" ELSE "0", "")

GetCityByNameAndState(name, state_code) ==
    LET r == get_city_by_name_and_state(World, name, state_code)
    IN  Called("get_city_by_name_and_state", r.w, FoundStatus(r), "")

AddCity(city_data) ==
    LET r == add_city(World, city_data, now)
    IN  Called("add_city", r.w, BoolStatus(r), r.msg)

UpdateCity(name, state_code, update_data) ==
    LET r == update_city(World, name, state_code, update_data, now)
    IN  Called("update_city", r.w, BoolStatus(r), r.msg)

UpdateCityByNameAndCountry(name, country_code, update_data) ==
    LET r == update_city_by_name_and_country(World, name, country_code, update_data)
    IN  Called("update_city_by_name_and_country", r.w, BoolStatus(r), r.msg)

DeleteCity(name, state_code) ==
    LET r == delete_city(World, name, state_code)
    IN  Called("delete_city", r.w, BoolStatus(r), r.msg)

DeleteCityByNameAndCountry(name, country_code) ==
    LET r == delete_city_by_name_and_country(World, name, country_code)
    IN  Called("delete_city_by_name_and_country", r.w, BoolStatus(r), r.msg)

DeleteCitiesByState(state_code) ==
    LET r == delete_cities_by_state(World, state_code)
    IN  Called("delete_cities_by_state", r.w, IF r.ret > 0 THEN "deleted" ELSE "0", "")

DeleteCitiesByCountry(country_code) ==
    LET r == delete_cities_by_country(World, country_code)
    IN  Called("delete_cities_by_country", r.w, IF r.ret > 0 THEN "deleted" ELSE "0", "")

PostCountries(country_data) ==
    LET h == CountriesList_post(World, country_data, now)
    IN  Called("POST /countries", h.w, h.status, h.msg)

GetCountry(country_code) ==
    LET h == Country_get(World, country_code)
    IN  Called("GET /countries/{code}", h.w, h.status, h.msg)

PutCountry(country_code, update_data) ==
    LET h == Country_put(World, country_code, update_data, now)
    IN  Called("PUT /countries/{code}", h.w, h.status, h.msg)

DeleteCountryRequest(country_code) ==
    LET h == Country_delete(World, country_code)
    IN  Called("DELETE /countries/{code}", h.w, h.status, h.msg)

PostStates(state_data) ==
    LET h == StatesList_post(World, state_data, now)
    IN  Called("POST /states", h.w, h.status, h.msg)

GetState(state_code) ==
    LET h == State_get(World, state_code)
    IN  Called("GET /states/{code}", h.w, h.status, h.msg)

PutState(state_code, update_data) ==
    LET h == State_put(World, state_code, update_data, now)
    IN  Called("PUT /states/{code}", h.w, h.status, h.msg)

DeleteStateRequest(state_code) ==
    LET h == State_delete(World, state_code)
    IN  Called("DELETE /states/{code}", h.w, h.status, h.msg)

PostCities(city_data) ==
    LET h == CitiesList_post(World, city_data, now)
    IN  Called("POST /cities", h.w, h.status, h.msg)

GetCity(state_code, city_name) ==
    LET h == City_get(World, state_code, city_name)
    IN  Called("GET /cities/{state}/{name}", h.w, h.status, h.msg)

PutCity(state_code, city_name, update_data) ==
    LET h == City_put(World, state_code, city_name, update_data, now)
    IN  Called("PUT /cities/{state}/{name}", h.w, h.status, h.msg)

DeleteCityRequest(state_code, city_name) ==
    LET h == City_delete(World, state_code, city_name)
    IN  Called("DELETE /cities/{state}/{name}", h.w, h.status, h.msg)

(***************************************************************************)
(* The stand-alone cache: any sequence of get / set / invalidate / clear   *)
(***************************************************************************)
LRUKeys == 1..MaxKey
LRUValues == {[v |-> 1], [v |-> 2]}

RECURSIVE SeqWithout(_, _)
SeqWithout(s, x) ==
    IF s = <<>> THEN <<>>
    ELSE IF Head(s) = x THEN SeqWithout(Tail(s), x)
         ELSE <<Head(s)>> \o SeqWithout(Tail(s), x)

RECURSIVE Restrict(_, _)
Restrict(s, S) ==
    IF s = <<>> THEN <<>>
    ELSE IF Head(s) \in S THEN <<Head(s)>> \o Restrict(Tail(s), S)
         ELSE Restrict(Tail(s), S)

\* the key just touched becomes the newest; keys no longer held are dropped
Touch(key, held) == Restrict(Append(SeqWithout(touched, key), key), held)

Remember(call) == IF lru_hist = <<>> THEN <<call>> ELSE <<lru_hist[Len(lru_hist)], call>>

LruGet(key) ==
    LET r == LRUCache_get(lru_store, key)
    IN  /\ lru_store' = r.store
        /\ touched' = IF key \in Keys(lru_store) THEN Touch(key, Keys(r.store)) ELSE touched
        /\ lru_hist' = Remember([op |-> "get", key |-> key, value |-> r.value,
                                 dropped |-> Keys(lru_store) \ Keys(r.store)])
        /\ UNCHANGED <<maxsize, geoVars, raceVars, connVars, textVars>>

LruSet(key, value) ==
    LET s == LRUCache_set(lru_store, maxsize, key, value)
    IN  /\ lru_store' = s
        /\ touched' = Touch(key, Keys(s))
        /\ lru_hist' = Remember([op |-> "set", key |-> key, value |-> value,
                                 dropped |-> Keys(lru_store) \ Keys(s)])
        /\ UNCHANGED <<maxsize, geoVars, raceVars, connVars, textVars>>

LruInvalidate(key) ==
    LET s == LRUCache_invalidate(lru_store, key)
    IN  /\ lru_store' = s
        /\ touched' = Restrict(touched, Keys(s))
        /\ lru_hist' = Remember([op |-> "invalidate", key |-> key, value |-> None,
                                 dropped |-> Keys(lru_store) \ Keys(s)])
        /\ UNCHANGED <<maxsize, geoVars, raceVars, connVars, textVars>>

LruClear ==
    /\ lru_store' = LRUCache_clear(lru_store)
    /\ touched' = <<>>
    /\ lru_hist' = Remember([op |-> "clear", key |-> 0, value |-> None,
                             dropped |-> Keys(lru_store)])
    /\ UNCHANGED <<maxsize, geoVars, raceVars, connVars, textVars>>

Procs == 1..NumProcs

\* no request is under way; the collections of seDB carry no unique index
RaceInit ==
    /\ unique_index = FALSE
    /\ pc = [p \in Procs |-> "idle"]
    /\ pending = [p \in Procs |-> None]
    /\ outcome = [p \in Procs |-> "none"]

\* no string sanitized yet
TextInit ==
    /\ text = <<>>
    /\ cleaned = <<>>
    /\ passes = 0

\* the module is imported: client = None, no wrapped function called yet
ConnInit ==
    /\ client = 0
    /\ wrapped = [op |-> "none", before |-> 0, calls |-> <<>>, connects |-> 0,
                  result |-> "none"]
    /\ oids = 0

GeoInit ==
    /\ countries = <<>>
    /\ states = <<>>
    /\ cities = <<>>
    /\ country_by_code_cache = <<>>
    /\ state_by_code_cache = <<>>
    /\ city_by_name_state_cache = <<>>
    /\ now = 1
    /\ last = [op |-> "init", status |-> "none", msg |-> ""]

LruInit ==
    /\ lru_store = <<>>
    /\ maxsize = 1
    /\ touched = <<>>
    /\ lru_hist = <<>>

\* the process starts on an empty store
Init == GeoInit /\ LruInit /\ RaceInit /\ ConnInit /\ TextInit

\* countries and states
Next ==
    \/ \E code \in RawCountryCodes : GetCountryByCode(code)
    \/ \E d \in CountryPayloads : AddCountry(d)
    \/ \E code \in RawCountryCodes, u \in CountryUpdates : UpdateCountry(code, u)
    \/ \E code \in RawCountryCodes : DeleteCountry(code)
    \/ \E code \in RawStateCodes : GetStateByCode(code)
    \/ \E d \in StatePayloads : AddState(d)
    \/ \E code \in RawStateCodes, u \in StateUpdates : UpdateState(code, u)
    \/ \E code \in RawStateCodes : DeleteState(code)
    \/ \E code \in RawCountryCodes : DeleteStatesByCountry(code)
    \/ \E d \in CountryPayloads : PostCountries(d)
    \/ \E c \in RawCountryCodes : GetCountry(c)
    \/ \E c \in RawCountryCodes, u \in CountryUpdates : PutCountry(c, u)
    \/ \E c \in RawCountryCodes : DeleteCountryRequest(c)
    \/ \E d \in StatePayloads : PostStates(d)
    \/ \E sc \in RawStateCodes : GetState(sc)
    \/ \E sc \in RawStateCodes, u \in StateUpdates : PutState(sc, u)
    \/ \E sc \in RawStateCodes : DeleteStateRequest(sc)

Spec == Init /\ [][Next]_vars

\* the process starts on a store that holds two countries and a state in each
\* (a state that Spec reaches: see SeededStore), with empty caches
SeededStore ==
    /\ countries = <<Stamp(CountryDoc(AA), 1), Stamp(CountryDoc(BB), 1)>>
    /\ states = <<Stamp(StateDoc(NY, AA), 1), Stamp(StateDoc(CA, BB), 1)>>
    /\ cities = <<>>
    /\ country_by_code_cache = <<>>
    /\ state_by_code_cache = <<>>
    /\ city_by_name_state_cache = <<>>
    /\ now = 1
    /\ last = [op |-> "add_state", status |-> "True", msg |-> ""]

InitCities == SeededStore /\ LruInit /\ RaceInit /\ ConnInit /\ TextInit

\* states and cities
NextCities ==
    \/ \E n \in RawCityNames, sc \in RawStateCodes : GetCityByNameAndState(n, sc)
    \/ \E d \in CityPayloads : AddCity(d)
    \/ \E n \in RawCityNames, sc \in RawStateCodes, u \in CityUpdates : UpdateCity(n, sc, u)
    \/ \E n \in RawCityNames, c \in RawCountryCodes, u \in CityByCountryUpdates :
          UpdateCityByNameAndCountry(n, c, u)
    \/ \E n \in RawCityNames, sc \in RawStateCodes : DeleteCity(n, sc)
    \/ \E n \in RawCityNames, c \in RawCountryCodes : DeleteCityByNameAndCountry(n, c)
    \/ \E sc \in RawStateCodes : DeleteCitiesByState(sc)
    \/ \E c \in RawCountryCodes : DeleteCitiesByCountry(c)
    \/ \E code \in RawStateCodes : DeleteState(code)
    \/ \E d \in CityPayloads : PostCities(d)
    \/ \E sc \in RawStateCodes, n \in RawCityNames : GetCity(sc, n)
    \/ \E sc \in RawStateCodes, n \in RawCityNames, u \in CityUpdates : PutCity(sc, n, u)
    \/ \E sc \in RawStateCodes, n \in RawCityNames : DeleteCityRequest(sc, n)
    \/ \E sc \in RawStateCodes : DeleteStateRequest(sc)

SpecCities == InitCities /\ [][NextCities]_vars

InitLRU ==
    /\ GeoInit /\ RaceInit /\ ConnInit /\ TextInit
    /\ lru_store = <<>>
    /\ maxsize \in 1..MaxSize
    /\ touched = <<>>
    /\ lru_hist = <<>>

NextLRU ==
    \/ \E key \in LRUKeys : LruGet(key)
    \/ \E key \in LRUKeys, value \in LRUValues : LruSet(key, value)
    \/ \E key \in LRUKeys : LruInvalidate(key)
    \/ LruClear

SpecLRU == InitLRU /\ [][NextLRU]_vars

(***************************************************************************)
(* The clock: datetime.utcnow() read by the creates and the updates.  Time *)
(* passes between calls.                                                   *)
(***************************************************************************)
Tick ==
    /\ now < MaxTime
    /\ now' = now + 1
    /\ last' = [op |-> "tick", status |-> "none", msg |-> ""]
    /\ UNCHANGED <<countries, states, cities, country_by_code_cache,
                   state_by_code_cache, city_by_name_state_cache, lruVars,
                   raceVars, connVars, textVars>>

\* the timestamps a client may put into a payload
ClientStamps == {[created_at |-> 0], [updated_at |-> 0], [created_at |-> 0, updated_at |-> 0]}

ClockCountryPayloads == {CountryDoc(AA)} \cup {Merge(CountryDoc(AA), c) : c \in ClientStamps}
ClockStatePayloads == {StateDoc(NY, AA)} \cup {Merge(StateDoc(NY, AA), c) : c \in ClientStamps}
ClockCityPayloads == {CityDoc(CityX, NY, AA)} \cup {Merge(CityDoc(CityX, NY, AA), c) : c \in ClientStamps}

\* updates that change nothing but the time of the update
ClockUpdates == {[population |-> 5]}

NextClock ==
    \/ Tick
    \/ \E d \in ClockCountryPayloads : AddCountry(d)
    \/ \E d \in ClockStatePayloads : AddState(d)
    \/ \E d \in ClockCityPayloads : AddCity(d)
    \/ \E u \in ClockUpdates : UpdateCountry(AA, u)
    \/ \E u \in ClockUpdates : UpdateState(NY, u)
    \/ \E u \in ClockUpdates : UpdateCity(CityX, NY, u)
    \/ \E u \in CityByCountryUpdates : UpdateCityByNameAndCountry(CityX, AA, u)

SpecClock == Init /\ [][NextClock]_vars

(***************************************************************************)
(* Properties of the stand-alone cache                                     *)
(***************************************************************************)
LastCall == lru_hist[Len(lru_hist)]

\* C8: get(k) right after set(k, v) returns v; get(k) right after
\* invalidate(k) is a miss (None); invalidate of an absent key changes
\* nothing.  Stated of the three methods applied to the current cache, and
\* of the last two calls actually made.
C8_SetGetInvalidate ==
    /\ \A k \in LRUKeys :
        /\ \A v \in LRUValues :
              LRUCache_get(LRUCache_set(lru_store, maxsize, k, v), k).value = v
        /\ LRUCache_get(LRUCache_invalidate(lru_store, k), k).value = None
        /\ k \notin Keys(lru_store) => LRUCache_invalidate(lru_store, k) = lru_store
    /\ (Len(lru_hist) = 2 /\ lru_hist[2].op = "get" /\ lru_hist[1].key = lru_hist[2].key) =>
        /\ lru_hist[1].op = "set" => lru_hist[2].value = lru_hist[1].value
        /\ lru_hist[1].op = "invalidate" => lru_hist[2].value = None

\* a get that directly follows a set of the same key has been made
C8_Witness ==
    /\ Len(lru_hist) = 2
    /\ lru_hist[1].op = "set" /\ lru_hist[2].op = "get"
    /\ lru_hist[1].key = lru_hist[2].key
    /\ lru_hist[2].value = lru_hist[1].value
    /\ Len(lru_store) = 2

\* C9: a set of a key not in the cache, made when the cache holds maxsize
\* entries, removes exactly one entry, the one touched (by a successful get
\* or a set) longest ago; that key then misses and every other key is still
\* held with its value.  A key just read is therefore not the next victim.
C9_EvictsLeastRecentlyTouched ==
    /\ Len(touched) = Len(lru_store)
    /\ Len(lru_store) >= maxsize =>
        \A k \in LRUKeys \ Keys(lru_store), v \in LRUValues :
            LET s == LRUCache_set(lru_store, maxsize, k, v)
                victim == Head(touched)
            IN  /\ Keys(lru_store) \ Keys(s) = {victim}
                /\ Keys(s) = (Keys(lru_store) \ {victim}) \cup {k}
                /\ LRUCache_get(s, victim).value = None
                /\ \A o \in Keys(lru_store) \ {victim} :
                      LRUCache_get(s, o).value = ValueOf(lru_store, o)
                /\ (/\ lru_hist # <<>> /\ LastCall.op = "get" /\ LastCall.value # None
                    /\ Len(lru_store) >= 2) => LastCall.key \in Keys(s)

\* a set has just evicted a key, right after a get refreshed another one
C9_Witness ==
    /\ Len(lru_hist) = 2
    /\ lru_hist[1].op = "get" /\ lru_hist[1].value # None
    /\ lru_hist[2].op = "set" /\ lru_hist[2].dropped # {}
    /\ lru_hist[1].key \in Keys(lru_store)
    /\ lru_hist[1].key # lru_hist[2].key

(***************************************************************************)
(* Properties of the data layer and of the HTTP handlers.  A property of   *)
(* a function is stated of the function applied to the current world, for  *)
(* every argument of a set: it then holds of every call the program makes. *)
(***************************************************************************)
\* 'after' is 'before' without its i-th record, everything else in place
IsWithout(after, before, i) ==
    /\ i \in DOMAIN before
    /\ Len(after) = Len(before) - 1
    /\ \A j \in DOMAIN after : after[j] = before[IF j < i THEN j ELSE j + 1]

StatesOf(country_code) == {i \in DOMAIN states : states[i].country_code = country_code}

CitiesOf(state_code) ==
    {i \in DOMAIN cities : Has(cities[i], "state_code") /\ cities[i].state_code = state_code}

CountryAt(code) == {i \in DOMAIN countries : countries[i].country_code = code}

StateAt(code) == {i \in DOMAIN states : states[i].state_code = code}

\* C1: delete_country(code), when a stored state has country_code = code,
\* fails with a conflict (409 from DELETE /countries/{code}) and removes
\* neither the country nor any state; when no state references code and the
\* country is stored, it removes exactly that country record and succeeds
\* (204).
C1_DeleteCountryGuard ==
    \A code \in RawCountryCodes :
        LET r == delete_country(World, code)
            h == Country_delete(World, code)
        IN  /\ StatesOf(code) # {} =>
                /\ r.exc = "ValueError"
                /\ r.w.countries = countries /\ r.w.states = states
            /\ (StatesOf(code) = {} /\ CountryAt(code) # {}) =>
                /\ r.exc = "none" /\ r.ret = TRUE
                /\ \E i \in CountryAt(code) : IsWithout(r.w.countries, countries, i)
                /\ r.w.states = states
            /\ StatesOf(upper(code)) # {} =>
                /\ h.status = "409"
                /\ h.w.countries = countries /\ h.w.states = states
            /\ (StatesOf(upper(code)) = {} /\ CountryAt(upper(code)) # {}) =>
                /\ h.status = "204"
                /\ \E i \in CountryAt(upper(code)) : IsWithout(h.w.countries, countries, i)
                /\ h.w.states = states

\* DELETE of a stored country that a stored state depends on was just refused
C1_Witness ==
    /\ last.op = "DELETE /countries/{code}" /\ last.status = "409"
    /\ \E i \in DOMAIN countries : StatesOf(countries[i].country_code) # {}
    /\ \E i \in DOMAIN countries : StatesOf(countries[i].country_code) = {}

WellFormedState(d) == \A f \in STATE_REQUIRED_FIELDS : Has(d, f)

\* C2: creating a state (add_state, POST /states) whose country_code names
\* no stored country fails with a validation error (400) and inserts no
\* state record.
C2_StateNeedsCountry ==
    \A d \in StatePayloads :
        (WellFormedState(d) /\ CountryAt(sanitize_code(d.country_code)) = {}) =>
            LET r == add_state(World, d, now)
                h == StatesList_post(World, d, now)
            IN  /\ r.exc = "ValueError" /\ r.w.states = states
                /\ h.status = "400" /\ h.w.states = states

WellFormedCity(d) == Has(d, "city_name") /\ Has(d, "state_code") /\ Has(d, "country_code")

\* C3: creating a city (add_city, POST /cities) with a state_code, when the
\* stored state of that code belongs to another country than the city's
\* country_code, fails with a validation error (400) and inserts no city
\* record.
C3_CityStateCountryMatch ==
    \A d \in CityPayloads :
        (/\ WellFormedCity(d)
         /\ StateAt(sanitize_code(d.state_code)) # {}
         /\ \A i \in StateAt(sanitize_code(d.state_code)) :
               states[i].country_code # sanitize_code(d.country_code)) =>
            LET r == add_city(World, d, now)
                h == CitiesList_post(World, d, now)
            IN  /\ r.exc = "ValueError" /\ r.w.cities = cities
                /\ h.status = "400" /\ h.w.cities = cities

PairAt(state_code, country_code) ==
    {i \in StateAt(state_code) : states[i].country_code = country_code}

\* C4: states are unique per (country_code, state_code): add_state of a pair
\* not in the store (its country being stored) succeeds and inserts the
\* record, also when another country has a state of the same state_code;
\* add_state of a pair in the store fails with a conflict and inserts
\* nothing.
C4_StateUniquePerPair ==
    \A d \in StatePayloads :
        WellFormedState(d) =>
            LET sc == sanitize_code(d.state_code)
                cc == sanitize_code(d.country_code)
                r == add_state(World, d, now)
            IN  /\ (PairAt(sc, cc) = {} /\ CountryAt(cc) # {}) =>
                    /\ r.exc = "none" /\ r.ret = TRUE
                    /\ Len(r.w.states) = Len(states) + 1
                    /\ r.w.states[Len(r.w.states)].state_code = sc
                    /\ r.w.states[Len(r.w.states)].country_code = cc
                /\ PairAt(sc, cc) # {} =>
                    /\ r.exc = "ValueError" /\ r.w.states = states

KeyOf(city) == CityKey(city.city_name, IF Has(city, "state_code") THEN city.state_code ELSE <<>>)

\* C6: every successful update or delete of a country, state or city leaves
\* no entry for the record's lookup key in the corresponding cache: a get on
\* that cache with the key right after the operation is a miss.
C6_SuccessfulWriteInvalidates ==
    /\ \A code \in RawCountryCodes :
          /\ \A u \in CountryUpdates :
                update_country(World, code, u, now).ret =>
                    LRUCache_get(country_by_code_cache, code).value = None
          /\ delete_country(World, code).ret =>
                LRUCache_get(country_by_code_cache, code).value = None
    /\ \A code \in RawStateCodes :
          /\ \A u \in StateUpdates :
                update_state(World, code, u, now).ret =>
                    LRUCache_get(state_by_code_cache, code).value = None
          /\ delete_state(World, code).ret =>
                LRUCache_get(state_by_code_cache, code).value = None
    /\ \A n \in RawCityNames, sc \in RawStateCodes :
          /\ \A u \in CityUpdates :
                LET r == update_city(World, n, sc, u, now)
                IN  r.ret => LRUCache_get(r.w.cache, CityKey(n, sc)).value = None
          /\ LET r == delete_city(World, n, sc)
             IN  r.ret => LRUCache_get(r.w.cache, CityKey(n, sc)).value = None
    /\ \A n \in RawCityNames, c \in RawCountryCodes :
          LET city == get_city_by_name_and_country(World, n, c).ret
          IN  /\ \A u \in CityByCountryUpdates :
                    LET r == update_city_by_name_and_country(World, n, c, u)
                    IN  r.ret => LRUCache_get(r.w.cache, KeyOf(city)).value = None
              /\ LET r == delete_city_by_name_and_country(World, n, c)
                 IN  r.ret => LRUCache_get(r.w.cache, KeyOf(city)).value = None

\* C7: get_country_by_code, get_state_by_code and get_city_by_name_and_state
\* consult the cache first: of two consecutive lookups with the same key,
\* the first of which finds a record, exactly one reads the store, and both
\* return the same record.
C7_CacheConsultedFirst ==
    /\ \A code \in RawCountryCodes :
          LET first == get_country_by_code(World, code)
              second == get_country_by_code(first.w, code)
          IN  first.ret # None => (second.w.reads = 1 /\ second.ret = first.ret)
    /\ \A code \in RawStateCodes :
          LET first == get_state_by_code(World, code)
              second == get_state_by_code(first.w, code)
          IN  first.ret # None => (second.w.reads = 1 /\ second.ret = first.ret)
    /\ \A n \in RawCityNames, sc \in RawStateCodes :
          LET first == get_city_by_name_and_state(World, n, sc)
              second == get_city_by_name_and_state(first.w, n, sc)
          IN  first.ret # None => (second.w.reads <= 1 /\ second.ret = first.ret)

SameCreatedAt(after, before) ==
    /\ Len(after) = Len(before)
    /\ \A i \in DOMAIN before : after[i].created_at = before[i].created_at

\* C10: update_country, update_state and update_city drop a created_at key
\* of the update payload before the store update: no update changes the
\* created_at of a stored record, which therefore stays the value set at
\* the record's creation.
C10_UpdateKeepsCreatedAt ==
    /\ \A code \in RawCountryCodes, u \in ClientCountryUpdates :
          SameCreatedAt(update_country(World, code, u, now).w.countries, countries)
    /\ \A code \in RawStateCodes, u \in ClientStateUpdates :
          SameCreatedAt(update_state(World, code, u, now).w.states, states)
    /\ \A n \in RawCityNames, sc \in RawStateCodes, u \in ClientCityUpdates :
          SameCreatedAt(update_city(World, n, sc, u, now).w.cities, cities)

(***************************************************************************)
(* Timestamps                                                              *)
(***************************************************************************)
Newest(coll) == coll[Len(coll)]

StampedNow(r, coll) ==
    (r.exc = "none" /\ r.ret = TRUE) =>
        /\ Len(coll) > 0
        /\ Newest(coll).created_at = now
        /\ Newest(coll).updated_at = now

\* C11: after a successful add_country, add_state or add_city the stored
\* record has created_at = updated_at = the server time of the create,
\* whatever created_at / updated_at the input carried.
C11_CreateStampsServerTime ==
    /\ \A d \in ClockCountryPayloads \cup CountryPayloads :
          LET r == add_country(World, d, now) IN StampedNow(r, r.w.countries)
    /\ \A d \in ClockStatePayloads \cup StatePayloads :
          LET r == add_state(World, d, now) IN StampedNow(r, r.w.states)
    /\ \A d \in ClockCityPayloads \cup CityPayloads :
          LET r == add_city(World, d, now) IN StampedNow(r, r.w.cities)
    /\ (last.op = "add_country" /\ last.status = "True") =>
          (Newest(countries).created_at = now /\ Newest(countries).updated_at = now)
    /\ (last.op = "add_state" /\ last.status = "True") =>
          (Newest(states).created_at = now /\ Newest(states).updated_at = now)
    /\ (last.op = "add_city" /\ last.status = "True") =>
          (Newest(cities).created_at = now /\ Newest(cities).updated_at = now)

\* a city was just created after the clock had advanced, next to a country
\* created earlier
C11_Witness ==
    /\ last.op = "add_city" /\ last.status = "True"
    /\ now > 1
    /\ Newest(cities).created_at = now
    /\ \E i \in DOMAIN countries : countries[i].created_at < now

ClientCityByCountryUpdates ==
    CityByCountryUpdates \cup {[population |-> 7, updated_at |-> 0]}

\* the record an update addressed carries the current time, and no record's
\* updated_at went back
UpdatedNow(r, after, before, filt) ==
    r.ret = TRUE =>
        /\ after[FirstMatch(before, filt)].updated_at = now
        /\ \A i \in DOMAIN before : after[i].updated_at >= before[i].updated_at

\* C12: every successful update path (update_country, update_state,
\* update_city, update_city_by_name_and_country) writes updated_at as the
\* current server time, overwriting an updated_at of the client, so that
\* updated_at never decreases across updates.
C12_UpdateStampsServerTime ==
    /\ \A code \in RawCountryCodes, u \in ClientCountryUpdates :
          LET r == update_country(World, code, u, now)
          IN  UpdatedNow(r, r.w.countries, countries, [country_code |-> code])
    /\ \A code \in RawStateCodes, u \in ClientStateUpdates :
          LET r == update_state(World, code, u, now)
          IN  UpdatedNow(r, r.w.states, states, [state_code |-> code])
    /\ \A n \in RawCityNames, sc \in RawStateCodes, u \in ClientCityUpdates :
          LET r == update_city(World, n, sc, u, now)
          IN  UpdatedNow(r, r.w.cities, cities, [city_name |-> n, state_code |-> sc])
    /\ \A n \in RawCityNames, c \in RawCountryCodes, u \in ClientCityByCountryUpdates :
          LET r == update_city_by_name_and_country(World, n, c, u)
          IN  UpdatedNow(r, r.w.cities, cities, [city_name |-> n, country_code |-> c])

(***************************************************************************)
(* Identity fields                                                         *)
(***************************************************************************)
\* update payloads that carry the identity fields of the record
IdentityCountryUpdates == {[population |-> 7, country_code |-> BB]}
IdentityStateUpdates == {[population |-> 7, state_code |-> CA]}
IdentityCityUpdates == {[population |-> 7, city_name |-> SomeName, state_code |-> CA]}

\* payloads that carry one identity field only
PartIdentityCityUpdates ==
    {[population |-> 7, city_name |-> SomeName], [population |-> 7, state_code |-> CA]}

NextIdentity ==
    \/ \E d \in CityPayloads : AddCity(d)
    \/ \E u \in IdentityCountryUpdates : UpdateCountry(AA, u)
    \/ \E u \in IdentityStateUpdates : UpdateState(NY, u)
    \/ \E n \in RawCityNames, sc \in RawStateCodes, u \in IdentityCityUpdates :
          UpdateCity(n, sc, u)
    \/ \E sc \in RawStateCodes, n \in RawCityNames, u \in IdentityCityUpdates :
          PutCity(sc, n, u)

SpecIdentity == InitCities /\ [][NextIdentity]_vars

SameField(after, before, f) ==
    /\ Len(after) = Len(before)
    /\ \A i \in DOMAIN before : Has(before[i], f) => (Has(after[i], f) /\ after[i][f] = before[i][f])

\* C13: update_country never changes a record's country_code, update_state
\* never its state_code, update_city never its city_name or state_code: the
\* identity fields of a payload are dropped, and the other fields supplied
\* (here the population) are still applied by a successful update.
C13_IdentityImmutable ==
    /\ \A code \in RawCountryCodes, u \in IdentityCountryUpdates :
          LET r == update_country(World, code, u, now)
          IN  /\ SameField(r.w.countries, countries, "country_code")
              /\ r.ret = TRUE =>
                    r.w.countries[FirstMatch(countries, [country_code |-> code])].population
                        = u.population
    /\ \A code \in RawStateCodes, u \in IdentityStateUpdates :
          LET r == update_state(World, code, u, now)
          IN  /\ SameField(r.w.states, states, "state_code")
              /\ r.ret = TRUE =>
                    r.w.states[FirstMatch(states, [state_code |-> code])].population
                        = u.population
    /\ \A n \in RawCityNames, sc \in RawStateCodes,
          u \in IdentityCityUpdates \cup PartIdentityCityUpdates :
          LET r == update_city(World, n, sc, u, now)
          IN  /\ SameField(r.w.cities, cities, "city_name")
              /\ SameField(r.w.cities, cities, "state_code")
              /\ r.ret = TRUE =>
                    r.w.cities[FirstMatch(cities, [city_name |-> n, state_code |-> sc])].population
                        = u.population

\* an update_city whose payload named another city_name or state_code has
\* just succeeded: the population is the new one, the identity is the old
C13_Witness ==
    /\ last.op = "update_city" /\ last.status = "True"
    /\ \E i \in DOMAIN cities :
          /\ cities[i].population = 7
          /\ cities[i].city_name = CityX /\ cities[i].state_code = NY

(***************************************************************************)
(* Concurrent creates.  add_country makes two store calls, the existence   *)
(* check (read_one) and the insert (insert_one); requests served           *)
(* concurrently interleave between the two.  data/models.py creates the    *)
(* unique indexes in the database "project_db", while the data layer       *)
(* reads and writes "seDB".                                                *)
(***************************************************************************)
SE_DB == "seDB"

INDEXED_DB == "project_db"

UniqueIndexed(db) == db = INDEXED_DB

\* insert_one: a unique index rejects a document whose key is already stored
insert_one(collection, doc, key, unique) ==
    IF unique /\ \E i \in DOMAIN collection : collection[i][key] = doc[key]
    THEN [coll |-> collection, exc |-> "DuplicateKeyError"]
    ELSE [coll |-> create(collection, doc), exc |-> "none"]

\* add_country up to and including its existence check
add_country_check(W, country_data) ==
    IF \E f \in COUNTRY_REQUIRED_FIELDS : ~Has(country_data, f)
    THEN Raise(W, "ValueError", "Missing required field")
    ELSE
    LET d == SanString(SanString(SanCode(SanString(country_data, "country_name"),
                 "country_code"), "capital"), "continent")
    IN  IF d.continent \notin VALID_CONTINENTS
        THEN Raise(W, "ValueError", "Invalid continent")
        ELSE
        LET g == get_country_by_code(W, d.country_code)
        IN  IF g.ret # None
            THEN Raise(g.w, "ValueError", "already exists")
            ELSE RetData(g.w, TRUE, d)

\* add_country from the timestamps on: no exception of the insert is caught
add_country_insert(W, d, t, unique) ==
    LET doc == Stamp(d, t)
        ins == insert_one(W.countries, doc, "country_code", unique)
    IN  IF ins.exc # "none"
        THEN Raise(W, ins.exc, "E11000 duplicate key error")
        ELSE RetData([W EXCEPT !.countries = ins.coll], TRUE, doc)

\* CountriesList.post: the status for what add_country returned or raised
CreateStatus(r) ==
    IF r.exc = "ValueError" THEN "400"
    ELSE IF r.exc # "none" THEN "500"
    ELSE IF r.ret THEN "201" ELSE "500"

RaceDone(p, r) ==
    /\ pc' = [pc EXCEPT ![p] = "done"]
    /\ outcome' = [outcome EXCEPT ![p] = BoolStatus(r)]
    /\ last' = [op |-> "add_country", status |-> BoolStatus(r), msg |-> r.msg]

\* request p runs add_country up to the existence check
RaceCheck(p, country_data) ==
    /\ pc[p] = "idle"
    /\ Len(countries) < MaxDocs
    /\ LET r == add_country_check(World, country_data)
       IN  IF r.exc # "none"
           THEN RaceDone(p, r) /\ UNCHANGED pending
           ELSE /\ pc' = [pc EXCEPT ![p] = "checked"]
                /\ pending' = [pending EXCEPT ![p] = r.data]
                /\ UNCHANGED <<outcome, last>>
    /\ UNCHANGED <<countries, states, cities, country_by_code_cache, state_by_code_cache,
                   city_by_name_state_cache, now, unique_index, lruVars, connVars, textVars>>

\* request p runs the rest of add_country
RaceInsert(p) ==
    /\ pc[p] = "checked"
    /\ LET r == add_country_insert(World, pending[p], now, unique_index)
       IN  /\ countries' = r.w.countries
           /\ RaceDone(p, r)
    /\ UNCHANGED <<states, cities, country_by_code_cache, state_by_code_cache,
                   city_by_name_state_cache, now, unique_index, pending, lruVars, connVars, textVars>>

\* the response of request p is sent; p serves the next request
RaceReturn(p) ==
    /\ pc[p] = "done"
    /\ pc' = [pc EXCEPT ![p] = "idle"]
    /\ pending' = [pending EXCEPT ![p] = None]
    /\ outcome' = [outcome EXCEPT ![p] = "none"]
    /\ UNCHANGED <<geoVars, unique_index, lruVars, connVars, textVars>>

\* the store as the program builds it, or with a unique index created in
\* seDB outside the program
InitRace ==
    /\ GeoInit /\ LruInit /\ ConnInit /\ TextInit
    /\ unique_index \in {UniqueIndexed(SE_DB), TRUE}
    /\ pc = [p \in Procs |-> "idle"]
    /\ pending = [p \in Procs |-> None]
    /\ outcome = [p \in Procs |-> "none"]

NextRace ==
    \/ \E p \in Procs, d \in CountryPayloads : RaceCheck(p, d)
    \/ \E p \in Procs : RaceInsert(p)
    \/ \E p \in Procs : RaceReturn(p)

SpecRace == InitRace /\ [][NextRace]_vars

C15_CountryCodeUnique ==
    UniqueIndexed(SE_DB) = unique_index =>
        \A i, j \in DOMAIN countries :
            countries[i].country_code = countries[j].country_code => i = j

(***************************************************************************)
(* ensure_connection: the wrapper around every store operation             *)
(***************************************************************************)
\* what one attempt of the wrapped operation can do: return, or raise one
\* of the two connection failures the wrapper catches, or another error
ConnectionErrors == {"ConnectionFailure", "ServerSelectionTimeoutError"}

AttemptOutcomes == {"ok", "OperationFailure"} \cup ConnectionErrors

\* connect_db: keeps an existing client; builds the next one otherwise, or
\* raises ValueError when the cloud configuration carries no URI
connect_db(c, uri_set) ==
    IF c # 0 THEN [client |-> c, exc |-> "none", made |-> 0]
    ELSE IF ~uri_set THEN [client |-> 0, exc |-> "ValueError", made |-> 0]
    ELSE [client |-> 1, exc |-> "none", made |-> 1]

\* the client that replaces a dropped client c
Reconnect(c, uri_set) ==
    IF uri_set THEN [client |-> c + 1, exc |-> "none", made |-> 1]
    ELSE [client |-> 0, exc |-> "ValueError", made |-> 0]

\* a wrapper that gives up after the first attempt
ensure_connection_noretry(c, uri_set, o1, o2) ==
    LET first == connect_db(c, uri_set)
    IN  IF first.exc # "none"
        THEN [client |-> first.client, calls |-> <<>>, connects |-> 0,
              result |-> first.exc]
        ELSE [client |-> first.client, calls |-> <<o1>>,
              connects |-> first.made, result |-> o1]

\* wrapper(*args): o1 and o2 are what the first and the second attempt of
\* the wrapped function would do; calls lists the attempts made
ensure_connection(c, uri_set, o1, o2) ==
    LET first == connect_db(c, uri_set)
    IN  IF first.exc # "none"
        THEN [client |-> first.client, calls |-> <<>>, connects |-> 0,
              result |-> first.exc]
        ELSE IF o1 \notin ConnectionErrors
        THEN [client |-> first.client, calls |-> <<o1>>,
              connects |-> first.made, result |-> o1]
        ELSE LET again == Reconnect(first.client, uri_set)
             IN  IF again.exc # "none"
                 THEN [client |-> again.client, calls |-> <<o1>>,
                       connects |-> first.made, result |-> again.exc]
                 ELSE [client |-> again.client, calls |-> <<o1, o2>>,
                       connects |-> first.made + again.made, result |-> o2]

WrappedOps == {"create", "read_one", "delete", "delete_many", "update",
               "read", "read_filtered", "fetch_all_as_dict"}

\* the collection after the wrapped function has run to its end
Applied(op, collection) ==
    CASE op = "create" -> create(collection, CountryDoc(AA))
      [] op = "delete" -> delete(collection, [country_code |-> AA]).coll
      [] op = "delete_many" -> delete_many(collection, [country_code |-> AA]).coll
      [] op = "update" ->
            update(collection, [country_code |-> AA], [population |-> 7]).coll
      [] OTHER -> collection

\* the configuration is the process's: a client exists only if it has a URI
Configs == IF client # 0 THEN {TRUE} ELSE BOOLEAN

\* one call of a wrapped function on the countries collection
WrappedCall(op, uri_set, o1, o2) ==
    LET r == ensure_connection(client, uri_set, o1, o2)
    IN  /\ r.client <= MaxConnects
        /\ op = "create" => Len(countries) < MaxDocs
        /\ client' = r.client
        /\ wrapped' = [op |-> op, before |-> client, calls |-> r.calls,
                       connects |-> r.connects, result |-> r.result]
        /\ countries' = IF r.result = "ok" THEN Applied(op, countries)
                        ELSE countries
        /\ UNCHANGED <<states, cities, country_by_code_cache,
                       state_by_code_cache, city_by_name_state_cache, now,
                       last, lruVars, raceVars, textVars, oids>>

InitConn == GeoInit /\ LruInit /\ RaceInit /\ ConnInit /\ TextInit

NextConn ==
    \E op \in WrappedOps, uri_set \in Configs, o1, o2 \in AttemptOutcomes :
        WrappedCall(op, uri_set, o1, o2)

SpecConn == InitConn /\ [][NextConn]_vars

\* C16: a call of a wrapped store operation whose first attempt raises a
\* connection failure drops the client, makes a new connection and attempts
\* the operation exactly once more, whose outcome (a failure included) is
\* the call's; no call attempts the operation more than twice, and a first
\* attempt that returns or raises another error is the only one.
C16_RetryExactlyOnce ==
    \A uri_set \in Configs, o1, o2 \in AttemptOutcomes :
        LET r == ensure_connection(client, uri_set, o1, o2)
        IN  /\ Len(r.calls) <= 2
            /\ (r.calls # <<>> /\ o1 \notin ConnectionErrors) =>
                   /\ r.calls = <<o1>> /\ r.result = o1
                   /\ client # 0 => r.client = client
            /\ (r.calls # <<>> /\ o1 \in ConnectionErrors) =>
                   /\ r.calls = <<o1, o2>> /\ r.result = o2
                   /\ r.client \notin {0, client}

\* a call on an existing client lost the connection, reconnected, and its
\* second attempt failed as well
C16_Witness ==
    /\ wrapped.before # 0
    /\ Len(wrapped.calls) = 2
    /\ wrapped.calls[1] \in ConnectionErrors
    /\ wrapped.result \in ConnectionErrors
    /\ client # wrapped.before

(***************************************************************************)
(* The list requests: GET /countries and GET /cities                       *)
(***************************************************************************)
\* a parsed query string: an argument that was not sent is not in the record
NoArgs == <<>>

OptArg(f, values) == {NoArgs} \cup {[g \in {f} |-> v] : v \in values}

Min(a, b) == IF a < b THEN a ELSE b

Max(a, b) == IF a > b THEN a ELSE b

\* items[offset:] and items[:limit]
SliceFrom(items, k) ==
    SubSeq(items, (IF k >= 0 THEN k ELSE Max(Len(items) + k, 0)) + 1, Len(items))

SliceTo(items, k) ==
    SubSeq(items, 1, IF k >= 0 THEN Min(k, Len(items)) ELSE Max(Len(items) + k, 0))

apply_pagination(results, args) ==
    LET skipped == IF Has(args, "offset") /\ args.offset # 0
                   THEN SliceFrom(results, args.offset) ELSE results
    IN  IF Has(args, "limit") /\ args.limit # 0
        THEN SliceTo(skipped, args.limit) ELSE skipped

\* a validation that lets every limit and offset through
validate_pagination_lenient(args) == "ok"

\* the message of the abort(400), or "ok"
validate_pagination(args) ==
    IF Has(args, "limit") /\ args.limit <= 0
    THEN "limit must be a positive integer"
    ELSE IF Has(args, "offset") /\ args.offset < 0
    THEN "offset must be zero or a positive integer"
    ELSE "ok"

\* a validation that only rejects negative bounds
validate_range_filters_signonly(args) ==
    IF Has(args, "min_population") /\ args.min_population < 0
    THEN "min_population must be zero or a positive integer"
    ELSE IF Has(args, "max_population") /\ args.max_population < 0
    THEN "max_population must be zero or a positive integer"
    ELSE "ok"

validate_range_filters(args) ==
    IF Has(args, "min_population") /\ args.min_population < 0
    THEN "min_population must be zero or a positive integer"
    ELSE IF Has(args, "max_population") /\ args.max_population < 0
    THEN "max_population must be zero or a positive integer"
    ELSE IF /\ Has(args, "min_population") /\ Has(args, "max_population")
            /\ args.min_population > args.max_population
    THEN "min_population cannot be greater than max_population"
    ELSE "ok"

\* $regex with option i: the pattern occurs somewhere in the value
IsPrefix(pattern, value) ==
    /\ Len(pattern) <= Len(value)
    /\ upper(SubSeq(value, 1, Len(pattern))) = upper(pattern)

Contains(value, pattern) ==
    \E i \in 0..Len(value) : IsPrefix(pattern, SubSeq(value, i + 1, Len(value)))

\* the query get_cities_filtered builds, applied to one document
CityQueryMatches(doc, args) ==
    /\ (Truthy(args, "name") /\ strip(args.name) # <<>>) =>
           Has(doc, "city_name") /\ Contains(doc.city_name, strip(args.name))
    /\ (Truthy(args, "state_code") /\ strip(args.state_code) # <<>>) =>
           Has(doc, "state_code") /\ doc.state_code = strip(upper(args.state_code))
    /\ (Truthy(args, "country_code") /\ strip(args.country_code) # <<>>) =>
           Has(doc, "country_code") /\ doc.country_code = strip(upper(args.country_code))
    /\ Has(args, "min_population") =>
           Has(doc, "population") /\ doc.population >= args.min_population
    /\ Has(args, "max_population") =>
           Has(doc, "population") /\ doc.population <= args.max_population

RECURSIVE SelectCities(_, _)
SelectCities(coll, args) ==
    IF coll = <<>> THEN <<>>
    ELSE IF CityQueryMatches(Head(coll), args)
         THEN <<Head(coll)>> \o SelectCities(Tail(coll), args)
         ELSE SelectCities(Tail(coll), args)

get_countries(W) == Ret(Reads(W, 1), W.countries)

get_cities_filtered(W, args) == Ret(Reads(W, 1), SelectCities(W.cities, args))

\* the answer of a list request: the status, the abort message, the page
Listed(W, status, msg, data) == [w |-> W, status |-> status, msg |-> msg, data |-> data]

CountriesList_get(W, args) ==
    LET paging == validate_pagination(args)
    IN  IF paging # "ok" THEN Listed(W, "400", paging, <<>>)
        ELSE LET r == get_countries(W)
             IN  Listed(r.w, "200", "", apply_pagination(r.ret, args))

CitiesList_get(W, args) ==
    LET paging == validate_pagination(args)
        range == validate_range_filters(args)
    IN  IF paging # "ok" THEN Listed(W, "400", paging, <<>>)
        ELSE IF range # "ok" THEN Listed(W, "400", range, <<>>)
        ELSE LET r == get_cities_filtered(W, args)
             IN  Listed(r.w, "200", "", apply_pagination(r.ret, args))

\* the query strings sent
PagingArgs ==
    {Merge(l, o) : l \in OptArg("limit", {-1, 0, 1, 2}),
                   o \in OptArg("offset", {-1, 0, 1})}

RangeArgs ==
    {Merge(lo, hi) : lo \in OptArg("min_population", {-1, 0, 5, 7}),
                     hi \in OptArg("max_population", {-1, 0, 5, 7})}

FilterArgs ==
    {Merge(n, c) : n \in OptArg("name", {<<"x">>}),
                   c \in OptArg("state_code", {ny})}

CityListArgs == {Merge(Merge(p, r), f) : p \in PagingArgs, r \in RangeArgs, f \in FilterArgs}

\* the requests made: every paging, with no filter, a bad range, a good one
SentCityListArgs ==
    {Merge(p, r) : p \in PagingArgs,
                   r \in {NoArgs,
                          [min_population |-> 7, max_population |-> 5],
                          [max_population |-> -1],
                          [name |-> <<"x">>, state_code |-> ny, min_population |-> 0]}}

ListCountries(args) ==
    LET r == CountriesList_get(World, args)
    IN  Called("CountriesList.get", r.w, r.status, r.msg)

ListCities(args) ==
    LET r == CitiesList_get(World, args)
    IN  Called("CitiesList.get", r.w, r.status, r.msg)

NextList ==
    \/ \E d \in CityPayloads : AddCity(d)
    \/ \E n \in RawCityNames, sc \in RawStateCodes, u \in CityUpdates : UpdateCity(n, sc, u)
    \/ \E n \in RawCityNames, sc \in RawStateCodes : DeleteCity(n, sc)
    \/ \E args \in PagingArgs : ListCountries(args)
    \/ \E args \in SentCityListArgs : ListCities(args)

SpecList == InitCities /\ [][NextList]_vars

\* C17: a list request whose limit or offset is zero or negative is answered
\* 400 and reads nothing from the store.
C17_NonPositivePagingRejected ==
    /\ \A args \in PagingArgs :
          ((Has(args, "limit") /\ args.limit <= 0)
              \/ (Has(args, "offset") /\ args.offset <= 0)) =>
             LET r == CountriesList_get(World, args)
             IN  r.status = "400" /\ r.w.reads = 0
    /\ \A args \in CityListArgs :
          ((Has(args, "limit") /\ args.limit <= 0)
              \/ (Has(args, "offset") /\ args.offset <= 0)) =>
             LET r == CitiesList_get(World, args)
             IN  r.status = "400" /\ r.w.reads = 0

\* C17: amended: a list request whose limit is zero or negative, or whose
\* offset is negative, is answered 400 and reads nothing from the store; an
\* offset of zero is accepted as the first page and skips no record.
C17_InvalidPagingRejected ==
    /\ \A args \in PagingArgs :
          LET r == CountriesList_get(World, args)
          IN  /\ ((Has(args, "limit") /\ args.limit <= 0)
                     \/ (Has(args, "offset") /\ args.offset < 0)) =>
                        r.status = "400" /\ r.w.reads = 0
              /\ args = [offset |-> 0] =>
                        r.status = "200" /\ r.data = countries
    /\ \A args \in CityListArgs :
          LET r == CitiesList_get(World, args)
          IN  /\ ((Has(args, "limit") /\ args.limit <= 0)
                     \/ (Has(args, "offset") /\ args.offset < 0)) =>
                        r.status = "400" /\ r.w.reads = 0
              /\ args = [offset |-> 0] =>
                        r.status = "200" /\ r.data = cities

\* a list of cities was asked for with a bad limit or offset, on a store
\* that holds a city
C17_Witness ==
    /\ last.op = "CitiesList.get"
    /\ last.status = "400"
    /\ last.msg \in {"limit must be a positive integer",
                     "offset must be zero or a positive integer"}
    /\ cities # <<>>

\* C18: GET /cities with min_population greater than max_population, or
\* with a negative min_population or max_population, is answered 400 and
\* reads nothing from the store.
C18_BadRangeRejected ==
    \A args \in CityListArgs :
        (\/ Has(args, "min_population") /\ args.min_population < 0
         \/ Has(args, "max_population") /\ args.max_population < 0
         \/ /\ Has(args, "min_population") /\ Has(args, "max_population")
            /\ args.min_population > args.max_population) =>
            LET r == CitiesList_get(World, args)
            IN  r.status = "400" /\ r.w.reads = 0

\* a list of cities was asked for with min_population above max_population,
\* on a store that holds a city
C18_Witness ==
    /\ last.op = "CitiesList.get"
    /\ last.status = "400"
    /\ last.msg = "min_population cannot be greater than max_population"
    /\ cities # <<>>

(***************************************************************************)
(* Letter case of codes                                                    *)
(***************************************************************************)
\* the codes a collection stores in field f are uppercase
StoredUpper(coll, f) ==
    \A i \in DOMAIN coll : Has(coll[i], f) => coll[i][f] = upper(coll[i][f])

\* the requests of a client that writes every code in lowercase
LowerCityPayloads == {CityDoc(CityX, ny, aa)}

LowerStatePayloads == {StateDoc(<<"c", "a">>, aa)}

LowerCodeUpdates == {[population |-> 7, country_code |-> aa]}

NextCase ==
    \/ \E d \in LowerCityPayloads : PostCities(d)
    \/ GetCity(ny, CityX)
    \/ \E u \in LowerCodeUpdates : PutCity(ny, CityX, u)
    \/ DeleteCityRequest(ny, CityX)
    \/ \E d \in LowerStatePayloads : PostStates(d)
    \/ GetState(ny)
    \/ \E u \in LowerCodeUpdates : PutState(ny, u)
    \/ DeleteStateRequest(ny)
    \/ GetCountry(aa)
    \/ PutCountry(aa, [population |-> 7])
    \/ DeleteCountryRequest(aa)
    \/ ListCities([state_code |-> ny, country_code |-> aa])

SpecCase == InitCities /\ [][NextCase]_vars

\* C19: country and state codes are case-insensitive on input: a request
\* that carries a code in its path, its query or its body is answered, and
\* leaves the store, as the same request with the code in uppercase, so both
\* address the same record; the codes stored are uppercase.
C19_CodesCaseInsensitive ==
    /\ StoredUpper(countries, "country_code")
    /\ StoredUpper(states, "state_code") /\ StoredUpper(states, "country_code")
    /\ StoredUpper(cities, "state_code") /\ StoredUpper(cities, "country_code")
    /\ \A c \in RawCountryCodes \cup {<<"b", "b">>} :
          /\ Country_get(World, c) = Country_get(World, upper(c))
          /\ Country_put(World, c, [population |-> 7], now)
                = Country_put(World, upper(c), [population |-> 7], now)
          /\ Country_delete(World, c) = Country_delete(World, upper(c))
          /\ CitiesList_get(World, [country_code |-> c])
                = CitiesList_get(World, [country_code |-> upper(c)])
    /\ \A sc \in RawStateCodes \cup {<<"c", "a">>} :
          /\ State_get(World, sc) = State_get(World, upper(sc))
          /\ State_delete(World, sc) = State_delete(World, upper(sc))
          /\ CitiesList_get(World, [state_code |-> sc])
                = CitiesList_get(World, [state_code |-> upper(sc)])
          /\ \A u \in LowerCodeUpdates :
                State_put(World, sc, u, now)
                   = State_put(World, upper(sc), SanCode(u, "country_code"), now)
          /\ \A n \in RawCityNames :
                /\ City_get(World, sc, n) = City_get(World, upper(sc), n)
                /\ City_delete(World, sc, n) = City_delete(World, upper(sc), n)
                /\ \A u \in LowerCodeUpdates :
                      City_put(World, sc, n, u, now)
                         = City_put(World, upper(sc), n, SanCode(u, "country_code"), now)
    /\ \A d \in LowerCityPayloads :
          CitiesList_post(World, d, now)
             = CitiesList_post(World, SanCode(SanCode(d, "state_code"), "country_code"), now)
    /\ \A d \in LowerStatePayloads :
          StatesList_post(World, d, now)
             = StatesList_post(World, SanCode(SanCode(d, "state_code"), "country_code"), now)

\* a DELETE whose path named the state code in lowercase has just removed
\* the city, which was stored under the uppercase code
C19_Witness ==
    /\ last.op = "DELETE /cities/{state}/{name}"
    /\ last.status = "204"
    /\ cities = <<>>

(***************************************************************************)
(* Sanitizing before the checks                                            *)
(***************************************************************************)
\* codes and names as a client may type them: padded with a blank
aaPadded == <<" ", "a", "a">>

nyPadded == <<"n", "y", " ">>

TX == <<"T", "X">>

PaddedCountryPayloads == {CountryDoc(aaPadded), CountryDoc(<<"c", "c", " ">>)}

PaddedStatePayloads == {StateDoc(TX, aaPadded), StateDoc(nyPadded, AA)}

PaddedCityPayloads == {CityDoc(CityXRaw, nyPadded, AA), CityDoc(CityX, NY, aaPadded)}

\* the payload after sanitize_string on its name and sanitize_code on its codes
Sanitized(d) ==
    SanCode(SanCode(SanString(SanString(SanString(d,
        "country_name"), "state_name"), "city_name"), "state_code"), "country_code")

\* C20: on every create call the name and code fields of the payload are
\* sanitized before any existence, parent-existence or uniqueness check
\* reads the store: every check is made with the value that would be
\* stored, so a payload is answered as its sanitized form is, at the data
\* layer and at the HTTP handler alike.
C20_ChecksUseSanitized ==
    /\ \A d \in PaddedCountryPayloads :
          /\ BoolStatus(add_country(World, d, now))
                = BoolStatus(add_country(World, Sanitized(d), now))
          /\ CountriesList_post(World, d, now).status
                = CountriesList_post(World, Sanitized(d), now).status
    /\ \A d \in PaddedStatePayloads :
          /\ BoolStatus(add_state(World, d, now))
                = BoolStatus(add_state(World, Sanitized(d), now))
          /\ StatesList_post(World, d, now).status
                = StatesList_post(World, Sanitized(d), now).status
    /\ \A d \in PaddedCityPayloads :
          /\ BoolStatus(add_city(World, d, now))
                = BoolStatus(add_city(World, Sanitized(d), now))
          /\ CitiesList_post(World, d, now).status
                = CitiesList_post(World, Sanitized(d), now).status

(***************************************************************************)
(* Figures: population and area_km2                                        *)
(***************************************************************************)
Figures == {"population", "area_km2"}

\* every figure a collection stores is zero or more
NonNegative(coll) ==
    \A i \in DOMAIN coll : \A f \in Figures : Has(coll[i], f) => coll[i][f] >= 0

\* the call raised a validation error and left the three collections alone
Refused(r) ==
    /\ r.exc = "ValueError"
    /\ r.w.countries = countries /\ r.w.states = states /\ r.w.cities = cities

\* C21: every stored country, state and city has population >= 0 and
\* area_km2 >= 0, and a create or an update that supplies a negative
\* population or area is refused with a validation error and changes nothing.
C21_FiguresNonNegative ==
    /\ NonNegative(countries) /\ NonNegative(states) /\ NonNegative(cities)
    /\ \A f \in Figures :
          /\ \A c \in RawCountryCodes :
                /\ Refused(add_country(World, Put(CountryDoc(c), f, -1), now))
                /\ CountryAt(c) # {} =>
                      Refused(update_country(World, c, [g \in {f} |-> -1], now))
          /\ \A sc \in RawStateCodes :
                /\ Refused(add_state(World, Put(StateDoc(sc, AA), f, -1), now))
                /\ StateAt(sc) # {} =>
                      Refused(update_state(World, sc, [g \in {f} |-> -1], now))
                /\ \A n \in RawCityNames :
                      /\ Refused(add_city(World, Put(CityDoc(n, sc, AA), f, -1), now))
                      /\ read_one(cities, [city_name |-> n, state_code |-> sc]) # None =>
                            Refused(update_city(World, n, sc, [g \in {f} |-> -1], now))

(***************************************************************************)
(* sanitize_string on its own                                              *)
(***************************************************************************)
\* the characters of a string: the three kinds of whitespace and two letters
Chars == {" ", "\t", "\n", "a", "b"}

Strings == UNION {[1..k -> Chars] : k \in 0..MaxLen}

OnlyWhitespace(s) == \A i \in DOMAIN s : IsSpace(s[i])

\* sanitize_string(text)
SanitizeText ==
    /\ passes = 0
    /\ cleaned' = sanitize_string(text)
    /\ passes' = 1
    /\ UNCHANGED <<text, geoVars, lruVars, raceVars, connVars>>

\* sanitize_string applied to what sanitize_string returned
SanitizeAgain ==
    /\ passes = 1
    /\ cleaned' = sanitize_string(cleaned)
    /\ passes' = 2
    /\ UNCHANGED <<text, geoVars, lruVars, raceVars, connVars>>

InitText ==
    /\ GeoInit /\ LruInit /\ RaceInit /\ ConnInit
    /\ text \in Strings
    /\ cleaned = <<>>
    /\ passes = 0

NextText == SanitizeText \/ SanitizeAgain

SpecText == InitText /\ [][NextText]_vars

\* C22: sanitize_string is idempotent, sanitize_string(sanitize_string(s)) =
\* sanitize_string(s) for every string s, and a string made only of
\* whitespace is sanitized to the empty string.
C22_SanitizeStringIdempotent ==
    /\ sanitize_string(sanitize_string(text)) = sanitize_string(text)
    /\ passes >= 1 => cleaned = sanitize_string(text)
    /\ OnlyWhitespace(text) => sanitize_string(text) = <<>>
    /\ (passes >= 1 /\ OnlyWhitespace(text)) => cleaned = <<>>

\* a string with a run of two whitespace characters between two letters has
\* been sanitized twice
C22_Witness ==
    /\ passes = 2
    /\ text = <<"a", "\t", "\n", "b">>
    /\ cleaned = <<"a", " ", "b">>

(***************************************************************************)
(* The city cache under the data-layer city operations                     *)
(***************************************************************************)
NextCityData ==
    \/ \E n \in RawCityNames, sc \in RawStateCodes : GetCityByNameAndState(n, sc)
    \/ \E d \in CityPayloads : AddCity(d)
    \/ \E n \in RawCityNames, sc \in RawStateCodes, u \in CityUpdates : UpdateCity(n, sc, u)
    \/ \E n \in RawCityNames, c \in RawCountryCodes, u \in CityByCountryUpdates :
          UpdateCityByNameAndCountry(n, c, u)
    \/ \E n \in RawCityNames, sc \in RawStateCodes : DeleteCity(n, sc)
    \/ \E n \in RawCityNames, c \in RawCountryCodes : DeleteCityByNameAndCountry(n, c)
    \/ \E sc \in RawStateCodes : DeleteCitiesByState(sc)
    \/ \E c \in RawCountryCodes : DeleteCitiesByCountry(c)

SpecCityData == InitCities /\ [][NextCityData]_vars

\* C23: after any sequence of data-layer city operations every entry of
\* city_by_name_state_cache is a record that is in the store now, under its
\* own key and with the stored field values, so get_city_by_name_and_state
\* returns neither a deleted record nor values older than the last update.
C23_CityCacheCoherent ==
    /\ \A i \in DOMAIN city_by_name_state_cache :
          \E j \in DOMAIN cities :
              /\ cities[j] = city_by_name_state_cache[i][2]
              /\ KeyOf(cities[j]) = city_by_name_state_cache[i][1]
    /\ \A n \in RawCityNames, sc \in RawStateCodes :
          LET got == get_city_by_name_and_state(World, n, sc).ret
          IN  got # None => \E j \in DOMAIN cities : cities[j] = got

\* C24: a lookup miss is never cached: a get_city_by_name_and_state that
\* finds no record leaves the cache as it was, and the same lookup made after
\* the record has been created returns the created record.
C24_MissNotCached ==
    \A n \in RawCityNames, sc \in RawStateCodes :
        LET miss == get_city_by_name_and_state(World, n, sc)
        IN  miss.ret = None =>
               /\ miss.w.cache = city_by_name_state_cache
               /\ \A d \in CityPayloads :
                     LET made == add_city(miss.w, d, now)
                     IN  (made.exc = "none" /\ made.ret /\ KeyOf(made.data) = CityKey(n, sc)) =>
                            get_city_by_name_and_state(made.w, n, sc).ret = made.data

\* a lookup has just found nothing, the cache holds the record of another
\* key, and the record looked up can be created
C24_Witness ==
    /\ last.op = "get_city_by_name_and_state" /\ last.status = "None"
    /\ city_by_name_state_cache # <<>>
    /\ \E n \in RawCityNames, sc \in RawStateCodes, d \in CityPayloads :
          LET made == add_city(World, d, now)
          IN  /\ get_city_by_name_and_state(World, n, sc).ret = None
              /\ made.exc = "none" /\ made.ret /\ KeyOf(made.data) = CityKey(n, sc)

(***************************************************************************)
(* The hierarchy under requests served one at a time                       *)
(***************************************************************************)
\* the writing requests of a client on the three resources
HttpCountryPayloads == {CountryDoc(BB)}

HttpStatePayloads == {StateDoc(CA, BB), StateDoc(TX, AA)}

HttpCityPayloads == {CityDoc(CityX, NY, AA), CityDoc(CityX, CA, BB), CityDoc(CityX, TX, BB)}

HttpParentUpdates == {[country_code |-> BB]}

NextHttp ==
    \/ \E d \in HttpCountryPayloads : PostCountries(d)
    \/ \E u \in CityByCountryUpdates : PutCountry(AA, u)
    \/ \E c \in {AA, BB} : DeleteCountryRequest(c)
    \/ \E d \in HttpStatePayloads : PostStates(d)
    \/ \E u \in HttpParentUpdates : PutState(NY, u)
    \/ \E sc \in {NY, CA} : DeleteStateRequest(sc)
    \/ \E d \in HttpCityPayloads : PostCities(d)
    \/ \E u \in HttpParentUpdates : PutCity(NY, CityX, u)
    \/ \E sc \in {NY, CA} : DeleteCityRequest(sc, CityX)

SpecHttp == InitCities /\ [][NextHttp]_vars

\* C25: after any sequence of POST, PUT and DELETE requests served one at a
\* time, every stored state's country_code is the code of a stored country
\* and every stored city's state_code is the code of a stored state.
C25_NoOrphans ==
    /\ \A i \in DOMAIN states :
          Has(states[i], "country_code") /\ CountryAt(states[i].country_code) # {}
    /\ \A i \in DOMAIN cities :
          Has(cities[i], "state_code") /\ StateAt(cities[i].state_code) # {}

\* a DELETE of a country that still has a state has just been refused, on a
\* store that holds a city
C25_Witness ==
    /\ last.op = "DELETE /countries/{code}" /\ last.status = "409"
    /\ cities # <<>>

\* C26: after any sequence of create, update and delete requests every
\* stored city that has a state_code has the country_code of that state:
\* neither PUT /states/{code} nor PUT /cities/{state}/{name} with a
\* country_code in the body makes them differ.
C26_CityCountryIsStateCountry ==
    \A i \in DOMAIN cities :
        Has(cities[i], "state_code") =>
            \A j \in DOMAIN states :
                states[j].state_code = cities[i].state_code =>
                    states[j].country_code = cities[i].country_code

(***************************************************************************)
(* Creates and deletes served concurrently.  There is no lock: a request   *)
(* is a sequence of store calls, each atomic, and the calls of concurrent  *)
(* requests interleave.  pc[p] names the store call request p makes next.  *)
(***************************************************************************)
Goto(p, label, doc) ==
    /\ pc' = [pc EXCEPT ![p] = label]
    /\ pending' = [pending EXCEPT ![p] = doc]
    /\ UNCHANGED <<outcome, last>>

End(p, label, op, status) ==
    /\ pc' = [pc EXCEPT ![p] = label]
    /\ outcome' = [outcome EXCEPT ![p] = status]
    /\ last' = [op |-> op, status |-> status, msg |-> ""]
    /\ UNCHANGED pending

StoreFrame ==
    UNCHANGED <<country_by_code_cache, state_by_code_cache, now, unique_index,
                lruVars, connVars, textVars>>

NoWrite == UNCHANGED <<countries, states, cities, city_by_name_state_cache>>

\* StatesList.post: the lookup of the parent country
PostStateParent(p, d) ==
    /\ pc[p] = "idle"
    /\ Len(states) < MaxDocs
    /\ IF get_country_by_code(World, upper(d.country_code)).ret = None
       THEN End(p, "ps_done", "POST /states", "500")
       ELSE Goto(p, "ps_parent", d)
    /\ NoWrite /\ StoreFrame

\* add_state: sanitizing and the lookup of the state code
PostStateExists(p) ==
    /\ pc[p] = "ps_parent"
    /\ LET d == Sanitized(pending[p])
       IN  IF get_state_by_code(World, d.state_code).ret # None
           THEN End(p, "ps_done", "POST /states", "400")
           ELSE Goto(p, "ps_checked", d)
    /\ NoWrite /\ StoreFrame

\* add_state: the insert
PostStateInsert(p) ==
    /\ pc[p] = "ps_checked"
    /\ states' = create(states, Stamp(pending[p], now))
    /\ End(p, "ps_done", "POST /states", "201")
    /\ UNCHANGED <<countries, cities, city_by_name_state_cache>> /\ StoreFrame

\* delete_country: can_delete_country reads the states of the country
DeleteCountryCheck(p, code) ==
    /\ pc[p] = "idle"
    /\ IF ~can_delete_country(World, upper(code))[1]
       THEN End(p, "dc_done", "DELETE /countries/{code}", "409")
       ELSE Goto(p, "dc_clear", [country_code |-> upper(code)])
    /\ NoWrite /\ StoreFrame

\* delete_country: the delete
DeleteCountryDelete(p) ==
    /\ pc[p] = "dc_clear"
    /\ LET result == delete(countries, pending[p])
       IN  /\ countries' = result.coll
           /\ End(p, "dc_done", "DELETE /countries/{code}",
                  IF result.count > 0 THEN "204" ELSE "404")
    /\ UNCHANGED <<states, cities, city_by_name_state_cache>> /\ StoreFrame

\* add_city: required fields, sanitizing, state_exists
AddCityState(p, city_data) ==
    /\ pc[p] = "idle"
    /\ Len(cities) < MaxDocs
    /\ \A f \in CITY_REQUIRED_FIELDS : Has(city_data, f)
    /\ LET d == Sanitized(city_data)
       IN  IF Truthy(d, "state_code") /\ ~state_exists(World, d.state_code)
           THEN End(p, "ac_done", "add_city", "ValueError")
           ELSE Goto(p, "ac_state", d)
    /\ NoWrite /\ StoreFrame

\* add_city: country_exists
AddCityCountry(p) ==
    /\ pc[p] = "ac_state"
    /\ IF ~country_exists(World, pending[p].country_code)
       THEN End(p, "ac_done", "add_city", "ValueError")
       ELSE Goto(p, "ac_country", pending[p])
    /\ NoWrite /\ StoreFrame

\* add_city: the lookup of the city, which may fill the cache, and the
\* checks of population and area
AddCityExisting(p) ==
    /\ pc[p] = "ac_country"
    /\ LET d == pending[p]
           existing == IF Has(d, "state_code")
                       THEN get_city_by_name_and_state(World, d.city_name, d.state_code)
                       ELSE get_city_by_name_and_country(World, d.city_name, d.country_code)
       IN  /\ city_by_name_state_cache' = existing.w.cache
           /\ IF \/ existing.ret # None
                 \/ (IF Has(d, "population") THEN d.population ELSE 0) < 0
                 \/ (IF Has(d, "area_km2") THEN d.area_km2 ELSE 0) < 0
              THEN End(p, "ac_done", "add_city", "ValueError")
              ELSE Goto(p, "ac_checked", d)
    /\ UNCHANGED <<countries, states, cities>> /\ StoreFrame

\* add_city: the insert and the cache entry
AddCityInsert(p) ==
    /\ pc[p] = "ac_checked"
    /\ LET doc == Stamp(pending[p], now)
       IN  /\ cities' = create(cities, doc)
           /\ city_by_name_state_cache' =
                 LRUCache_set(city_by_name_state_cache, CITY_CACHE_MAXSIZE, KeyOf(doc), doc)
           /\ pc' = [pc EXCEPT ![p] = "ac_done"]
           /\ pending' = [pending EXCEPT ![p] = doc]
           /\ outcome' = [outcome EXCEPT ![p] = "True"]
           /\ last' = [op |-> "add_city", status |-> "True", msg |-> ""]
    /\ UNCHANGED <<countries, states>> /\ StoreFrame

\* delete_state: can_delete_state reads the cities of the state
DeleteStateCheck(p, code) ==
    /\ pc[p] = "idle"
    /\ IF ~can_delete_state(World, code)[1]
       THEN End(p, "ds_done", "delete_state", "ValueError")
       ELSE Goto(p, "ds_clear", [state_code |-> code])
    /\ NoWrite /\ StoreFrame

\* delete_state: delete_cities_by_state
DeleteStateCities(p) ==
    /\ pc[p] = "ds_clear"
    /\ cities' = delete_cities_by_state(World, pending[p].state_code).w.cities
    /\ Goto(p, "ds_cities", pending[p])
    /\ UNCHANGED <<countries, states, city_by_name_state_cache>> /\ StoreFrame

\* delete_state: the delete of the state
DeleteStateDelete(p) ==
    /\ pc[p] = "ds_cities"
    /\ LET result == delete(states, pending[p])
       IN  /\ states' = result.coll
           /\ End(p, "ds_done", "delete_state", IF result.count > 0 THEN "True" ELSE "False")
    /\ UNCHANGED <<countries, cities, city_by_name_state_cache>> /\ StoreFrame

Finished == {"ps_done", "dc_done", "ac_done", "ds_done"}

\* the response of request p is sent; p serves the next request
Respond(p) ==
    /\ pc[p] \in Finished
    /\ pc' = [pc EXCEPT ![p] = "idle"]
    /\ pending' = [pending EXCEPT ![p] = None]
    /\ outcome' = [outcome EXCEPT ![p] = "none"]
    /\ UNCHANGED <<geoVars, unique_index, lruVars, connVars, textVars>>

\* countries AA and BB, state NY of AA: BB has no state and NY has no city
InitShared ==
    /\ countries = <<Stamp(CountryDoc(AA), 1), Stamp(CountryDoc(BB), 1)>>
    /\ states = <<Stamp(StateDoc(NY, AA), 1)>>
    /\ cities = <<>>
    /\ country_by_code_cache = <<>>
    /\ state_by_code_cache = <<>>
    /\ city_by_name_state_cache = <<>>
    /\ now = 1
    /\ last = [op |-> "add_state", status |-> "True", msg |-> ""]
    /\ LruInit /\ RaceInit /\ ConnInit /\ TextInit

NextShared ==
    \/ \E p \in Procs : PostStateParent(p, StateDoc(CA, BB))
    \/ \E p \in Procs : PostStateExists(p)
    \/ \E p \in Procs : PostStateInsert(p)
    \/ \E p \in Procs : DeleteCountryCheck(p, BB)
    \/ \E p \in Procs : DeleteCountryDelete(p)
    \/ \E p \in Procs : AddCityState(p, CityDoc(CityX, NY, AA))
    \/ \E p \in Procs : AddCityCountry(p)
    \/ \E p \in Procs : AddCityExisting(p)
    \/ \E p \in Procs : AddCityInsert(p)
    \/ \E p \in Procs : DeleteStateCheck(p, NY)
    \/ \E p \in Procs : DeleteStateCities(p)
    \/ \E p \in Procs : DeleteStateDelete(p)
    \/ \E p \in Procs : Respond(p)

SpecShared == InitShared /\ [][NextShared]_vars

\* no request is between two of its store calls
Quiescent == \A p \in Procs : pc[p] \in Finished \cup {"idle"}

\* C27: with requests served concurrently, every interleaving of a state
\* create with a delete of its country, and of a city create with a delete
\* of its state, ends in a store where every state's country and every
\* city's state is present.
C27_NoOrphansConcurrent ==
    Quiescent =>
        /\ \A i \in DOMAIN states : CountryAt(states[i].country_code) # {}
        /\ \A i \in DOMAIN cities :
              Has(cities[i], "state_code") => StateAt(cities[i].state_code) # {}

\* C28: delete_state never removes a city record: a city whose add_city
\* returned True is in the store, also when the add_city completed between
\* delete_state's check of the dependent cities and its
\* delete_cities_by_state.
C28_DeleteStateKeepsCities ==
    \A p \in Procs :
        (pc[p] = "ac_done" /\ outcome[p] = "True") =>
            \E i \in DOMAIN cities : cities[i] = pending[p]

(***************************************************************************)
(* create retried by ensure_connection                                     *)
(***************************************************************************)
\* what one attempt of insert_one can do; LostReply is an insert the store
\* applied whose reply never reached the driver, which raises a connection
\* failure for it
CreateOutcomes == AttemptOutcomes \cup {"LostReply"}

\* insert_one(doc) adds an _id to a document that has none, in the caller's
\* dict; n is the ObjectId it would generate
WithId(doc, n) == IF "_id" \in DOMAIN doc THEN doc ELSE ("_id" :> n) @@ doc

\* one attempt of create: the collection and the caller's dict afterwards, and
\* what the attempt returned or raised; _id is unique in every collection
CreateAttempt(collection, doc, n, o) ==
    LET d == WithId(doc, n)
        ins == insert_one(collection, d, "_id", TRUE)
    IN  IF o \in {"ok", "LostReply"}
        THEN [coll |-> ins.coll, doc |-> d,
              result |-> IF o = "LostReply" THEN "ConnectionFailure"
                         ELSE IF ins.exc = "none" THEN "ok" ELSE ins.exc]
        ELSE [coll |-> collection, doc |-> d, result |-> o]

\* a wrapper whose second attempt gets a copy of the arguments made before the
\* first attempt
RetryArgs_copy(before, after) == before

\* the wrapper calls func(*args, **kwargs) again with the same objects: the
\* dict as the first attempt left it
RetryArgs(before, after) == after

\* create(collection, doc) called through the wrapper
CreateCall(collection, c, n, doc, uri_set, o1, o2) ==
    LET a1 == CreateAttempt(collection, doc, n + 1, o1)
        args == RetryArgs(doc, a1.doc)
        a2 == CreateAttempt(a1.coll, args, n + 2, o2)
        r == ensure_connection(c, uri_set, a1.result, a2.result)
    IN  [coll |-> CASE Len(r.calls) = 0 -> collection
                    [] Len(r.calls) = 1 -> a1.coll
                    [] OTHER -> a2.coll,
         oids |-> CASE Len(r.calls) = 0 -> n
                    [] Len(r.calls) = 1 -> n + 1
                    [] OTHER -> IF "_id" \in DOMAIN args THEN n + 1 ELSE n + 2,
         r |-> r]

\* one call of create on the countries collection
WrappedCreate(code, uri_set, o1, o2) ==
    LET k == CreateCall(countries, client, oids, CountryDoc(code), uri_set, o1, o2)
    IN  /\ oids < MaxDocs
        /\ k.r.client <= MaxConnects
        /\ countries' = k.coll
        /\ client' = k.r.client
        /\ oids' = k.oids
        /\ wrapped' = [op |-> "create", before |-> client, calls |-> k.r.calls,
                       connects |-> k.r.connects, result |-> k.r.result]
        /\ UNCHANGED <<states, cities, country_by_code_cache,
                       state_by_code_cache, city_by_name_state_cache, now,
                       last, lruVars, raceVars, textVars>>

NextRetry ==
    \E code \in {AA, BB}, uri_set \in Configs, o1, o2 \in CreateOutcomes :
        WrappedCreate(code, uri_set, o1, o2)

SpecRetry == InitConn /\ [][NextRetry]_vars

\* C29: one call of create through the wrapper adds at most one document to
\* the collection, whatever each attempt does, the case included in which the
\* first attempt raises a connection failure after the store applied the
\* insert and the wrapper attempts the insert again
C29_CreateInsertsAtMostOne ==
    \A code \in {AA, BB}, uri_set \in Configs, o1, o2 \in CreateOutcomes :
        LET k == CreateCall(countries, client, oids, CountryDoc(code), uri_set,
                            o1, o2)
        IN  /\ Len(k.coll) <= Len(countries) + 1
            /\ \A i \in DOMAIN countries : k.coll[i] = countries[i]

\* the first attempt was applied and failed, the retry was refused by the
\* store, and the document is stored once
C29_Witness ==
    /\ wrapped.op = "create"
    /\ wrapped.calls = <<"ConnectionFailure", "DuplicateKeyError">>
    /\ Cardinality({i \in DOMAIN countries : countries[i]["_id"] = oids}) = 1

(***************************************************************************)
(* The size of an LRUCache                                                 *)
(***************************************************************************)
\* C30: a cache built with maxsize >= 1 never holds more than maxsize entries
\* (nor one key twice) after any sequence of get, set, invalidate and clear,
\* and a set on a key the cache holds removes no other key
C30_SizeBounded ==
    /\ maxsize >= 1
    /\ Len(lru_store) <= maxsize
    /\ Cardinality(Keys(lru_store)) = Len(lru_store)
    /\ \A key \in Keys(lru_store), value \in LRUValues :
          Keys(LRUCache_set(lru_store, maxsize, key, value)) = Keys(lru_store)

\* a full cache of more than one key in which a held key has just been set
\* again
C30_Witness ==
    /\ Len(lru_hist) = 2
    /\ lru_hist[1].op = "set" /\ lru_hist[2].op = "set"
    /\ lru_hist[1].key = lru_hist[2].key
    /\ lru_hist[2].dropped = {}
    /\ Len(lru_store) = maxsize
    /\ maxsize > 1

====
